---- MODULE Spec2Model ----
(***************************************************************************)
(* Article registry app: the sales ledger of the article details screen,   *)
(* the CSV import of the home screen and the pricing calculator screen,    *)
(* modelled as state machines over the key-value store they share.         *)
(*                                                                         *)
(* Text is a sequence of characters; a character is a one-element token    *)
(* (" " is the blank, "-" the dash, a word such as "ann" stands for one    *)
(* non-blank character).  Numbers typed by the user are held in hundredths *)
(* (or, for the commission, in half percents) with NaN for text that       *)
(* parseFloat does not parse.                                              *)
(***************************************************************************)
EXTENDS Integers, Sequences, FiniteSets, TLC

VARIABLES
    now,              \* the wall clock, in milliseconds (Date.now())
    registryStore,    \* stored value of article_registry (NULL when absent)
    salesStore,       \* stored value of sales_history (NULL when absent)
    pricingStore,     \* stored value of pricing_history (NULL when absent)
    alert,            \* the message the last handler showed (Alert.alert, window.alert),
                      \* as <<text>> or <<text, count>>; <<"none">> when it showed none
    \* ---- article details screen (ArticleDetailsScreen)
    article,          \* the loaded article record, NULL before loadArticle finds it
    salesHistory,     \* the sale list on screen
    showSalesModal,
    showAddSaleModal,
    editingSale,      \* the sale being edited, NULL when none
    saleCustomer, saleColor, saleQuantity, salePrice, saleCurrency, saleUnit,
    formVia,          \* history variable: the button that opened the sale form on screen
    \* ---- home screen (HomeScreen)
    platform,         \* Platform.OS: "web" or "mobile"
    fileContent,      \* the text of the document picked for import, NULL when none
    articles,         \* the in-memory collection
    loading,
    pendingImport,    \* the import waiting in the import-mode dialog, NULL when none
    dialogChoice,     \* history variable: the import-mode dialog button the last step pressed
    screen,           \* the screen on top: "home", "detail" or "filter"
    filterStore,      \* stored value of article_filters (NULL when absent)
    recentStore,      \* stored value of recent_articles (NULL when absent)
    favoritesStore,   \* stored value of favorites (NULL when absent)
    searchQuery, favorites, recentArticles, viewMode, currentSort,
    activeFilters,    \* NULL or the filter set loadFilters found
    homeSales,        \* salesHistory of the home screen
    filteredArticles, groupedArticles,
    filtersLoading,   \* a loadFilters call is waiting for the store
    salesLoading,     \* a loadSalesHistory call of the home screen is waiting for the store
    \* ---- pricing calculator screen (PricingCalculatorScreen)
    pricingArticle,   \* the loaded article record, NULL before loadArticle finds it
    pricingHistory,   \* the calculation list on screen
    selectedMarket, customCommission,
    profitMarginEurope, profitMarginUSA, profitMarginOther,
    transportTruck, transportAir, useTransport, transportType,
    useSampling, samplingRate, fxRate,
    finalPrice,       \* NULL or the price calculatePrice set last
    pickedMarket,     \* history variable: the market the last step pressed in the market
                      \* picker, "none" when it pressed none
    \* ---- dashboard (StatsScreen)
    stats             \* the statistics on screen

storeVars == <<registryStore, salesStore, pricingStore>>
detailVars == <<article, salesHistory, showSalesModal, showAddSaleModal, editingSale,
                saleCustomer, saleColor, saleQuantity, salePrice, saleCurrency, saleUnit,
                formVia>>
browseVars == <<screen, filterStore, recentStore, favoritesStore, searchQuery, favorites,
                recentArticles, viewMode, currentSort, activeFilters, homeSales,
                filteredArticles, groupedArticles, filtersLoading, salesLoading>>
homeVars == <<platform, fileContent, articles, loading, pendingImport, dialogChoice, browseVars>>
formVars == <<selectedMarket, customCommission, profitMarginEurope, profitMarginUSA,
              profitMarginOther, transportTruck, transportAir, useTransport,
              transportType, useSampling, samplingRate, fxRate>>
pricingVars == <<pricingArticle, pricingHistory, formVars, finalPrice, pickedMarket>>
vars == <<now, storeVars, alert, detailVars, homeVars, pricingVars, stats>>

\* A value that may be missing (null, undefined, an absent key) is a sequence of
\* at most one element: NULL when missing, Some(v) when it is v.
NULL == <<>>
Some(v) == <<v>>

\* ------------------------------------------------------------------ bounds
MaxTime == 2
MaxSales == 2
MaxArticles == 3
MaxCalcs == 1
MaxSaves == 2

\* ------------------------------------------------------------------ text
\* The white space characters of the model: blank, carriage return, line feed.
IsSpace(c) == c \in {" ", "CR", "LF"}

\* String.prototype.trim: strip the leading and the trailing white space.
RECURSIVE TrimLeft(_)
TrimLeft(s) == IF s # <<>> /\ IsSpace(Head(s)) THEN TrimLeft(Tail(s)) ELSE s

RECURSIVE TrimRight(_)
TrimRight(s) ==
    IF s # <<>> /\ IsSpace(s[Len(s)]) THEN TrimRight(SubSeq(s, 1, Len(s) - 1)) ELSE s

Trim(s) == TrimRight(TrimLeft(s))

\* Number.prototype.toString for a non-negative integer: its decimal digits.
Digit(d) == <<"0", "1", "2", "3", "4", "5", "6", "7", "8", "9">>[d + 1]

RECURSIVE NumStr(_)
NumStr(n) == IF n < 10 THEN <<Digit(n)>> ELSE NumStr(n \div 10) \o <<Digit(n % 10)>>

\* The text of a numeric form field is held as the number it spells: margins,
\* transport costs and the exchange rate in hundredths ("0.80" is 80), the
\* sampling rate in whole percents, the commission in half percents ("5" is
\* 10, "5.5" is 11).  EmptyText is the cleared field "", NaN the number NaN and
\* the text "NaN", Undefined a key the stored calculation does not have.
EmptyText == -1
NaN == -2
Undefined == -3

IsDigit(c) == \E d \in 0..9 : Digit(d) = c
DigitValue(c) == CHOOSE d \in 0..9 : Digit(d) = c

RECURSIVE DigitPrefix(_)
DigitPrefix(s) ==
    IF s = <<>> \/ ~IsDigit(Head(s)) THEN <<>> ELSE <<Head(s)>> \o DigitPrefix(Tail(s))

RECURSIVE DigitsValue(_)
DigitsValue(s) ==
    IF s = <<>> THEN 0
    ELSE 10 * DigitsValue(SubSeq(s, 1, Len(s) - 1)) + DigitValue(s[Len(s)])

\* parseFloat of a text of digits with at most two decimals, in hundredths:
\* leading white space skipped, the longest numeric prefix read, NaN when
\* there is none.
ParseFloat(text) ==
    LET t == TrimLeft(text)
        whole == DigitPrefix(t)
        rest == SubSeq(t, Len(whole) + 1, Len(t))
        frac == IF rest # <<>> /\ Head(rest) = "." THEN DigitPrefix(Tail(rest)) ELSE <<>>
    IN IF whole = <<>> /\ frac = <<>> THEN NaN
       ELSE 100 * DigitsValue(whole) + DigitsValue(SubSeq(frac \o <<"0", "0">>, 1, 2))

\* ------------------------------------------------------------------ CSV ingestion
\* text.replace(/^\uFEFF/, ''): drop a leading byte-order mark.
StripBOM(text) == IF text # <<>> /\ Head(text) = "BOM" THEN Tail(text) ELSE text

\* cleanText.split(/\r?\n/): cur is the line being read, acc the lines read.
RECURSIVE SplitLinesFrom(_, _, _)
SplitLinesFrom(rest, cur, acc) ==
    IF rest = <<>> THEN Append(acc, cur)
    ELSE IF Head(rest) = "LF"
         THEN SplitLinesFrom(Tail(rest), <<>>,
                  Append(acc, IF cur # <<>> /\ cur[Len(cur)] = "CR"
                              THEN SubSeq(cur, 1, Len(cur) - 1) ELSE cur))
         ELSE SplitLinesFrom(Tail(rest), Append(cur, Head(rest)), acc)

SplitLines(text) == SplitLinesFrom(text, <<>>, <<>>)

\* headerLine.split(','): every comma separates, quoted or not.
RECURSIVE SplitCommasFrom(_, _, _)
SplitCommasFrom(rest, cur, acc) ==
    IF rest = <<>> THEN Append(acc, cur)
    ELSE IF Head(rest) = ","
         THEN SplitCommasFrom(Tail(rest), <<>>, Append(acc, cur))
         ELSE SplitCommasFrom(Tail(rest), Append(cur, Head(rest)), acc)

\* h.replace(/^"|"$/g, ''): drop a quote at the start and a quote at the end.
StripQuotes(h) ==
    LET a == IF h # <<>> /\ Head(h) = "\"" THEN Tail(h) ELSE h
    IN IF a # <<>> /\ a[Len(a)] = "\"" THEN SubSeq(a, 1, Len(a) - 1) ELSE a

MapSeq(s, Op(_)) == [i \in 1..Len(s) |-> Op(s[i])]

Headers(headerLine) ==
    MapSeq(SplitCommasFrom(headerLine, <<>>, <<>>), LAMBDA h : StripQuotes(Trim(h)))

\* The field scanner of parseCSV over one trimmed line: a quote toggles
\* insideQuotes and is dropped, a comma outside quotes ends the value.
RECURSIVE ScanFieldsFrom(_, _, _, _)
ScanFieldsFrom(rest, currentValue, insideQuotes, values) ==
    IF rest = <<>> THEN Append(values, Trim(currentValue))
    ELSE IF Head(rest) = "\""
         THEN ScanFieldsFrom(Tail(rest), currentValue, ~insideQuotes, values)
         ELSE IF Head(rest) = "," /\ ~insideQuotes
              THEN ScanFieldsFrom(Tail(rest), <<>>, insideQuotes,
                                  Append(values, Trim(currentValue)))
              ELSE ScanFieldsFrom(Tail(rest), Append(currentValue, Head(rest)),
                                  insideQuotes, values)

\* The mutation of ScanFields below: every comma separates, quoted or not,
\* and the quotes are dropped.
ScanFieldsNaive(line) ==
    MapSeq(SplitCommasFrom(line, <<>>, <<>>),
           LAMBDA v : Trim(SelectSeq(v, LAMBDA c : c # "\"")))

ScanFields(line) == ScanFieldsFrom(line, <<>>, FALSE, <<>>)

\* The lookup table of convertHeaderToKey.
HeaderMapping ==
    [h \in {"Article Code", "Article Name", "Color Code", "Color Name", "Color Hex",
            "Treatment Name", "Treatment Code", "Supplier", "Supplier Code", "Section",
            "Season", "Supp.Art.Code", "Composition", "Weave", "Stretch", "Construction",
            "Weight GSM", "Width CM", "Dye Type", "Care Label", "Barcode/QR",
            "Base Price EUR"} |->
        CASE h = "Article Code" -> "articleCode"
          [] h = "Article Name" -> "articleName"
          [] h = "Color Code" -> "colorCode"
          [] h = "Color Name" -> "colorName"
          [] h = "Color Hex" -> "colorHex"
          [] h = "Treatment Name" -> "treatmentName"
          [] h = "Treatment Code" -> "treatmentCode"
          [] h = "Supplier" -> "supplier"
          [] h = "Supplier Code" -> "supplierCode"
          [] h = "Section" -> "section"
          [] h = "Season" -> "season"
          [] h = "Supp.Art.Code" -> "suppArtCode"
          [] h = "Composition" -> "composition"
          [] h = "Weave" -> "weave"
          [] h = "Stretch" -> "stretch"
          [] h = "Construction" -> "construction"
          [] h = "Weight GSM" -> "weightGSM"
          [] h = "Width CM" -> "widthCM"
          [] h = "Dye Type" -> "dyeType"
          [] h = "Care Label" -> "careLabel"
          [] h = "Barcode/QR" -> "barcodeQR"
          [] h = "Base Price EUR" -> "basePriceEUR"]

\* The header names of the mapping are single characters of the model; the
\* other characters are letters (written in lower case), digits or signs.
IsAlnum(c) == c \notin {" ", "CR", "LF", "BOM", ",", "\"", "-", "_", ".", "/"}

\* header.replace(/[^a-zA-Z0-9]/g, '').toLowerCase()
RECURSIVE Slug(_)
Slug(header) ==
    IF header = <<>> THEN ""
    ELSE (IF IsAlnum(Head(header)) THEN Head(header) ELSE "") \o Slug(Tail(header))

\* convertHeaderToKey
ConvertHeaderToKey(header) ==
    IF Len(header) = 1 /\ header[1] \in DOMAIN HeaderMapping
    THEN HeaderMapping[header[1]]
    ELSE Slug(header)

\* headers.forEach((header, index) => article[key] = values[index] || ''):
\* a later header with the same key overwrites an earlier one.
RowOf(headers, values) ==
    LET keys == {ConvertHeaderToKey(headers[i]) : i \in 1..Len(headers)}
        last(k) == CHOOSE i \in 1..Len(headers) :
                       /\ ConvertHeaderToKey(headers[i]) = k
                       /\ \A j \in (i + 1)..Len(headers) : ConvertHeaderToKey(headers[j]) # k
    IN [k \in keys |-> IF last(k) <= Len(values) THEN values[last(k)] ELSE <<>>]

\* The mutation of HasArticleCode below: a row is kept when it has the
\* articleCode column, blank or not.
HasArticleCodeKey(row) == "articleCode" \in DOMAIN row

\* article.articleCode && article.articleCode.trim()
HasArticleCode(row) ==
    "articleCode" \in DOMAIN row /\ row.articleCode # <<>> /\ Trim(row.articleCode) # <<>>

RECURSIVE ParseRows(_, _)
ParseRows(headers, lines) ==
    IF lines = <<>> THEN <<>>
    ELSE LET line == Trim(Head(lines))
             row == RowOf(headers, ScanFields(line))
         IN (IF line # <<>> /\ HasArticleCode(row) THEN <<row>> ELSE <<>>)
                \o ParseRows(headers, Tail(lines))

\* parseCSV(text)
ParseCSV(text) ==
    LET lines == SplitLines(StripBOM(text))
    IN IF Len(lines) < 2 THEN <<>>
       ELSE ParseRows(Headers(lines[1]), Tail(lines))

\* ------------------------------------------------------------------ registry
\* `${article.x}` of a template string: the text "undefined" for a missing field.
FieldText(row, key) == IF key \in DOMAIN row THEN row[key] ELSE <<"undefined">>

\* id of an imported row: `${articleCode}-${colorCode}-${treatmentName}-${Date.now()}-${index}`,
\* index counted from 0.
ArticleIdOf(row, t, index) ==
    FieldText(row, "articleCode") \o <<"-">> \o FieldText(row, "colorCode") \o <<"-">>
        \o FieldText(row, "treatmentName") \o <<"-">> \o NumStr(t) \o <<"-">> \o NumStr(index)

\* { ...article, id }
WithId(row, t, index) ==
    [k \in (DOMAIN row) \cup {"id"} |-> IF k = "id" THEN ArticleIdOf(row, t, index) ELSE row[k]]

\* parsedArticles.map((article, index) => ({ ...article, id })), Date.now() read as t.
ArticlesWithIds(rows, t) == [i \in 1..Len(rows) |-> WithId(rows[i], t, i - 1)]

\* The files the user imports.
HeaderLine == <<"Article Code", ",", " ", "Color Code", ",", "\"", "Treatment Name", "\"">>
TextTwoRows == <<"BOM">> \o HeaderLine \o <<"CR", "LF", "A", ",", "R", ",", "T", "CR", "LF",
                                           "B", ",", "R", ",", "T", "LF">>
TextOneRow == HeaderLine \o <<"LF", "A", ",", "R", ",", "T">>
TextEmpty == <<>>
TextHeaderOnly == HeaderLine
TextNoCode == HeaderLine \o <<"LF", ",", "R", ",", "T", "LF", " ", ",", "R", ",", "T">>
ImportTexts == {TextTwoRows, TextOneRow, TextEmpty, TextHeaderOnly, TextNoCode}

RowA == [articleCode |-> <<"A">>, colorCode |-> <<"R">>, treatmentName |-> <<"T">>]
RowB == [articleCode |-> <<"B">>, colorCode |-> <<"R">>, treatmentName |-> <<"T">>]

\* articles.find((a) => a.id === id)
FindArticle(list, id) ==
    IF \E i \in 1..Len(list) : list[i].id = id
    THEN Some(list[CHOOSE i \in 1..Len(list) :
                       list[i].id = id /\ \A j \in 1..(i - 1) : list[j].id # id])
    ELSE NULL

\* ------------------------------------------------------------------ key-value maps
\* A stored JSON map (articleId -> list) is a function over the keys it holds.
EmptyMap == <<>>

\* allHistory[key] || []
GetList(map, key) == IF key \in DOMAIN map THEN map[key] ELSE <<>>

\* allHistory[key] = list
PutList(map, key, list) ==
    [k \in (DOMAIN map) \cup {key} |-> IF k = key THEN list ELSE map[k]]

\* historyStr ? JSON.parse(historyStr) : {}
ParseOrEmpty(stored) == IF stored = NULL THEN EmptyMap ELSE stored[1]

TotalEntries(stored) ==
    LET m == ParseOrEmpty(stored)
        RECURSIVE Sum(_)
        Sum(ks) == IF ks = {} THEN 0
                   ELSE LET k == CHOOSE x \in ks : TRUE IN Len(m[k]) + Sum(ks \ {k})
    IN Sum(DOMAIN m)

\* ------------------------------------------------------------------ sales ledger
Currencies == {"EUR", "USD"}
Units == {"mt", "yrd"}

\* What the user types into the sale form before pressing Save: two complete
\* forms and one with a field of blanks only.
FormAnn == [customer |-> <<"ann">>, color |-> <<"red">>, quantity |-> <<"5">>,
            price |-> <<"9">>, currency |-> "EUR", unit |-> "mt"]
FormBob == [customer |-> <<" ", "bob">>, color |-> <<"blue", " ">>, quantity |-> <<"7">>,
            price |-> <<"3">>, currency |-> "USD", unit |-> "yrd"]
SaleFormInputs ==
    {FormAnn, FormBob, [FormAnn EXCEPT !.customer = <<" ">>]}

\* articleSales.sort((a, b) => new Date(b.timestamp) - new Date(a.timestamp)):
\* a stable sort, newest first.
RECURSIVE InsertByTimestamp(_, _)
InsertByTimestamp(x, s) ==
    IF s = <<>> THEN <<x>>
    ELSE IF Head(s).timestamp > x.timestamp
         THEN <<Head(s)>> \o InsertByTimestamp(x, Tail(s))
         ELSE <<x>> \o s

RECURSIVE SortByTimestampDesc(_)
SortByTimestampDesc(s) ==
    IF s = <<>> THEN <<>>
    ELSE InsertByTimestamp(Head(s), SortByTimestampDesc(Tail(s)))

\* loadSalesHistory(articleId): the list it puts on screen (the current list
\* when the key is absent).
LoadedSales(stored, articleId, current) ==
    IF stored = NULL THEN current
    ELSE SortByTimestampDesc(GetList(stored[1], articleId))

\* The validation without trim(): blanks count as a value.
FieldsFilledUntrimmed ==
    /\ saleCustomer # <<>>
    /\ saleColor # <<>>
    /\ saleQuantity # <<>>
    /\ salePrice # <<>>

\* The validation of saveSale: every text field non-blank after trim().
FieldsFilled ==
    /\ Trim(saleCustomer) # <<>>
    /\ Trim(saleColor) # <<>>
    /\ Trim(saleQuantity) # <<>>
    /\ Trim(salePrice) # <<>>

\* { ...editingSale, customer, color, quantity, price, currency, unit }
UpdatedSale(old) ==
    [old EXCEPT !.customer = Trim(saleCustomer), !.color = Trim(saleColor),
                !.quantity = Trim(saleQuantity), !.price = Trim(salePrice),
                !.currency = saleCurrency, !.unit = saleUnit]

\* allHistory[article.id].map(sale => sale.id === editingSale.id ? updatedSale : sale)
ReplaceById(list, saleId, updated) ==
    [i \in 1..Len(list) |-> IF list[i].id = saleId THEN updated ELSE list[i]]

\* The Sale object of the "add" branch: id is Date.now().toString() and
\* timestamp the instant of new Date(), the next statement, read in the same
\* millisecond t (toISOString and new Date(timestamp) keep the millisecond).
NewSale(t) ==
    [id |-> NumStr(t), timestamp |-> t, articleId |-> article[1].id,
     articleCode |-> article[1].articleCode,
     customer |-> Trim(saleCustomer), color |-> Trim(saleColor),
     quantity |-> Trim(saleQuantity), price |-> Trim(salePrice),
     currency |-> saleCurrency, unit |-> saleUnit]

\* Mutant of Unshift: push(sale), the new sale after the older ones.
PushAtEnd(list, sale) == list \o <<sale>>

\* allHistory[article.id].unshift(sale)
Unshift(list, sale) == <<sale>> \o list

\* allHistory[article.id].filter(sale => sale.id !== saleId)
RemoveById(list, saleId) == SelectSeq(list, LAMBDA sale : sale.id # saleId)

ResetSaleForm ==
    /\ showAddSaleModal' = FALSE
    /\ editingSale' = NULL
    /\ saleCustomer' = <<>>
    /\ saleColor' = <<>>
    /\ saleQuantity' = <<>>
    /\ salePrice' = <<>>
    /\ saleCurrency' = "EUR"
    /\ saleUnit' = "mt"

\* Mounting the details screen for route parameter id: the initial component
\* state, then loadArticle and, when the article is found, loadSalesHistory.
OpenArticle(id) ==
    LET found == IF registryStore = NULL THEN NULL ELSE FindArticle(registryStore[1], id)
    IN /\ article' = found
       /\ salesHistory' = IF found = NULL THEN <<>>
                          ELSE LoadedSales(salesStore, found[1].id, <<>>)
       /\ alert' = IF registryStore # NULL /\ found = NULL
                   THEN <<"Article not found">> ELSE <<"none">>
       /\ showSalesModal' = FALSE
       /\ ResetSaleForm
       /\ formVia' = "none"
       /\ UNCHANGED <<now, storeVars, homeVars, stats, pricingVars>>

NoModal == ~showSalesModal /\ ~showAddSaleModal

\* The SOLD button.
OpenSalesModal ==
    /\ article # NULL /\ NoModal
    /\ showSalesModal' = TRUE
    /\ alert' = <<"none">>
    /\ UNCHANGED <<now, storeVars, article, salesHistory, showAddSaleModal,
                   editingSale, saleCustomer, saleColor, saleQuantity, salePrice,
                   saleCurrency, saleUnit, formVia, homeVars, stats, pricingVars>>

\* The close button and onRequestClose of the sales modal.
CloseSalesModal ==
    /\ showSalesModal
    /\ showSalesModal' = FALSE
    /\ alert' = <<"none">>
    /\ UNCHANGED <<now, storeVars, article, salesHistory, showAddSaleModal,
                   editingSale, saleCustomer, saleColor, saleQuantity, salePrice,
                   saleCurrency, saleUnit, formVia, homeVars, stats, pricingVars>>

\* The "Record New Sale" button of the sales modal.
RecordNewSale ==
    /\ showSalesModal
    /\ showSalesModal' = FALSE
    /\ showAddSaleModal' = TRUE
    /\ formVia' = "record"
    /\ alert' = <<"none">>
    /\ UNCHANGED <<now, storeVars, article, salesHistory,
                   editingSale, saleCustomer, saleColor, saleQuantity, salePrice,
                   saleCurrency, saleUnit, homeVars, stats, pricingVars>>

\* startEditSale(sale), from the pencil button of row i of the sales modal.
StartEditSale(i) ==
    /\ showSalesModal
    /\ i \in 1..Len(salesHistory)
    /\ LET sale == salesHistory[i]
       IN /\ editingSale' = Some(sale)
          /\ saleCustomer' = sale.customer
          /\ saleColor' = sale.color
          /\ saleQuantity' = sale.quantity
          /\ salePrice' = sale.price
          /\ saleCurrency' = sale.currency
          /\ saleUnit' = sale.unit
    /\ showSalesModal' = FALSE
    /\ showAddSaleModal' = TRUE
    /\ formVia' = "edit"
    /\ alert' = <<"none">>
    /\ UNCHANGED <<now, storeVars, article, salesHistory, homeVars, stats, pricingVars>>

\* The overlay, the Cancel button and onRequestClose of the sale form: they
\* hide the form and nothing else.
DismissAddSaleModal ==
    /\ showAddSaleModal
    /\ showAddSaleModal' = FALSE
    /\ formVia' = "none"
    /\ alert' = <<"none">>
    /\ UNCHANGED <<now, storeVars, article, salesHistory, showSalesModal,
                   editingSale, saleCustomer, saleColor, saleQuantity, salePrice,
                   saleCurrency, saleUnit, homeVars, stats, pricingVars>>

\* The close (X) button of the sale form.
CloseAddSaleModal ==
    /\ showAddSaleModal
    /\ ResetSaleForm
    /\ formVia' = "none"
    /\ alert' = <<"none">>
    /\ UNCHANGED <<now, storeVars, article, salesHistory, showSalesModal,
                   homeVars, stats, pricingVars>>

\* The text inputs and the unit / currency buttons of the sale form.
TypeSaleForm(input) ==
    /\ showAddSaleModal
    /\ saleCustomer' = input.customer
    /\ saleColor' = input.color
    /\ saleQuantity' = input.quantity
    /\ salePrice' = input.price
    /\ saleCurrency' = input.currency
    /\ saleUnit' = input.unit
    /\ alert' = <<"none">>
    /\ UNCHANGED <<now, storeVars, article, salesHistory, showSalesModal,
                   showAddSaleModal, editingSale, formVia, homeVars, stats, pricingVars>>

\* saveSale, from the Save button of the sale form.
SaveSale ==
    /\ showAddSaleModal
    /\ article # NULL
    /\ IF ~FieldsFilled
       THEN /\ alert' = <<"Please fill in all fields">>
            /\ UNCHANGED <<now, storeVars, article, salesHistory, showSalesModal,
                           showAddSaleModal, editingSale, saleCustomer, saleColor,
                           saleQuantity, salePrice, saleCurrency, saleUnit>>
       ELSE LET allHistory == ParseOrEmpty(salesStore)
                list == GetList(allHistory, article[1].id)
            IN /\ IF editingSale # NULL
                  THEN /\ salesStore' = Some(PutList(allHistory, article[1].id,
                              ReplaceById(list, editingSale[1].id,
                                          UpdatedSale(editingSale[1]))))
                       /\ alert' = <<"Sale updated successfully">>
                  ELSE /\ TotalEntries(salesStore) < MaxSales
                       /\ salesStore' = Some(PutList(allHistory, article[1].id,
                              Unshift(list, NewSale(now))))
                       /\ alert' = <<"Sale recorded successfully">>
               /\ salesHistory' = salesStore'[1][article[1].id]
               /\ ResetSaleForm
               /\ UNCHANGED <<now, registryStore, pricingStore, article, showSalesModal>>
    /\ formVia' = IF FieldsFilled THEN "none" ELSE formVia
    /\ UNCHANGED <<homeVars, stats, pricingVars>>

\* deleteSale(sale.id), from the trash button of row i of the sales modal and
\* the Delete button of its confirmation.
DeleteSale(i) ==
    /\ showSalesModal
    /\ article # NULL
    /\ i \in 1..Len(salesHistory)
    /\ salesStore # NULL
    /\ article[1].id \in DOMAIN salesStore[1]
    /\ salesStore' = Some(PutList(salesStore[1], article[1].id,
                            RemoveById(salesStore[1][article[1].id], salesHistory[i].id)))
    /\ salesHistory' = salesStore'[1][article[1].id]
    /\ alert' = <<"Sale deleted">>
    /\ UNCHANGED <<now, registryStore, pricingStore, article, showSalesModal,
                   showAddSaleModal, editingSale, saleCustomer, saleColor, saleQuantity,
                   salePrice, saleCurrency, saleUnit, formVia, homeVars, stats, pricingVars>>

\* A millisecond passes.
Tick ==
    /\ now < MaxTime
    /\ now' = now + 1
    /\ alert' = <<"none">>
    /\ dialogChoice' = "none"
    /\ UNCHANGED <<storeVars, detailVars, platform, stats, fileContent, articles, loading, pendingImport,
                   browseVars, pricingVars>>

\* ------------------------------------------------------------------ home screen: the list
\* rec[key], d when the key is missing.
FieldOr(rec, key, d) == IF key \in DOMAIN rec THEN rec[key] ELSE d

\* parseFloat of a text with an optional sign and at most two decimals:
\* Some(hundredths), NULL for NaN.
ParseNumber(text) ==
    LET t == TrimLeft(text)
        signed == t # <<>> /\ Head(t) \in {"-", "+"}
        body == IF signed THEN Tail(t) ELSE t
        magnitude == ParseFloat(body)
    IN IF body = <<>> \/ IsSpace(Head(body)) \/ magnitude = NaN THEN NULL
       ELSE IF signed /\ Head(t) = "-" THEN Some(0 - magnitude) ELSE Some(magnitude)

\* String.prototype.toLowerCase.
LowerTable == [A |-> "a", B |-> "b", C |-> "c", R |-> "r", T |-> "t"]
LowerChar(c) == IF c \in DOMAIN LowerTable THEN LowerTable[c] ELSE c
ToLowerCase(text) == [i \in 1..Len(text) |-> LowerChar(text[i])]

\* String.prototype.includes.
Includes(text, q) ==
    \E i \in 1..(Len(text) - Len(q) + 1) : SubSeq(text, i, i + Len(q) - 1) = q

\* Array.prototype.includes / Set.prototype.has.
Has(list, x) == \E i \in 1..Len(list) : list[i] = x

\* Array.prototype.indexOf, counted from 0, -1 when absent.
IndexOf(list, x) ==
    IF Has(list, x) THEN (CHOOSE i \in 1..Len(list) :
                              list[i] = x /\ \A j \in 1..(i - 1) : list[j] # x) - 1
    ELSE 0 - 1

\* String.prototype.localeCompare: the characters in collation order (a lower
\* case letter before its upper case), texts compared character by character.
Collation == <<" ", "_", "-", "0", "1", "2", "3", "4", "5", "6", "7", "8", "9",
               "a", "A", "b", "B", "c", "C", "r", "R", "t", "T">>
CharRank(c) == IF Has(Collation, c) THEN IndexOf(Collation, c) ELSE Len(Collation)

RECURSIVE LocaleCompare(_, _)
LocaleCompare(a, b) ==
    IF a = <<>> /\ b = <<>> THEN 0
    ELSE IF a = <<>> THEN 0 - 1
    ELSE IF b = <<>> THEN 1
    ELSE IF CharRank(Head(a)) < CharRank(Head(b)) THEN 0 - 1
    ELSE IF CharRank(Head(a)) > CharRank(Head(b)) THEN 1
    ELSE LocaleCompare(Tail(a), Tail(b))

\* parseFloat(a.basePriceEUR || '0')
PriceOf(a) ==
    ParseNumber(IF FieldOr(a, "basePriceEUR", <<>>) = <<>> THEN <<"0">> ELSE a.basePriceEUR)

\* The comparators of filterAndSortArticles: the recency rank in view mode
\* 'recent', else the selected sort key; a NaN difference counts as 0.
Compare(kind, recents, a, b) ==
    IF kind = "recent" THEN IndexOf(recents, a.id) - IndexOf(recents, b.id)
    ELSE IF kind = "name"
         THEN LocaleCompare(FieldOr(a, "articleName", <<>>), FieldOr(b, "articleName", <<>>))
    ELSE IF kind = "code"
         THEN LocaleCompare(FieldOr(a, "articleCode", <<>>), FieldOr(b, "articleCode", <<>>))
    ELSE IF kind = "price"
         THEN IF PriceOf(a) = NULL \/ PriceOf(b) = NULL THEN 0
              ELSE PriceOf(a)[1] - PriceOf(b)[1]
    ELSE 0

\* Array.prototype.sort with a comparator: a stable sort.
RECURSIVE InsertSorted(_, _, _, _)
InsertSorted(kind, recents, x, s) ==
    IF s = <<>> THEN <<x>>
    ELSE IF Compare(kind, recents, Head(s), x) <= 0
         THEN <<Head(s)>> \o InsertSorted(kind, recents, x, Tail(s))
         ELSE <<x>> \o s

RECURSIVE SortBy(_, _, _)
SortBy(kind, recents, s) ==
    IF s = <<>> THEN <<>>
    ELSE InsertSorted(kind, recents, s[Len(s)],
                      SortBy(kind, recents, SubSeq(s, 1, Len(s) - 1)))

\* The view mode stage.
ViewStage(list, mode, favs, recents) ==
    IF mode = "favorites" THEN SelectSeq(list, LAMBDA a : Has(favs, a.id))
    ELSE IF mode = "recent"
         THEN SortBy("recent", recents, SelectSeq(list, LAMBDA a : Has(recents, a.id)))
    ELSE list

\* a.season && activeFilters.seasons.includes(a.season), applied when the
\* criterion holds a value.
MemberStage(list, filters, criterion, field) ==
    IF FieldOr(filters, criterion, <<>>) # <<>>
    THEN SelectSeq(list, LAMBDA a : /\ FieldOr(a, field, <<>>) # <<>>
                                    /\ Has(filters[criterion], a[field]))
    ELSE list

\* (salesHistory[a.id] || []).length > 0, applied when soldItemsOnly is set.
SoldStage(list, filters, sales) ==
    IF FieldOr(filters, "soldItemsOnly", FALSE)
    THEN SelectSeq(list, LAMBDA a : Len(GetList(sales, a.id)) > 0)
    ELSE list

\* price >= min && price <= max with min 0 and max Infinity when the bound
\* is empty; a comparison with NaN is false.
InPriceRange(a, minText, maxText) ==
    LET price == PriceOf(a)
        min == IF minText # <<>> THEN ParseNumber(minText) ELSE Some(0)
        max == ParseNumber(maxText)
    IN /\ price # NULL
       /\ min # NULL /\ price[1] >= min[1]
       /\ maxText # <<>> => (max # NULL /\ price[1] <= max[1])

\* The price stage, applied when minPrice or maxPrice holds a value.
PriceStage(list, filters) ==
    LET minText == FieldOr(filters, "minPrice", <<>>)
        maxText == FieldOr(filters, "maxPrice", <<>>)
    IN IF minText # <<>> \/ maxText # <<>>
       THEN SelectSeq(list, LAMBDA a : InPriceRange(a, minText, maxText))
       ELSE list

\* The advanced filters, applied when activeFilters is an object with a key.
FilterStage(list, active, sales) ==
    IF active # NULL /\ DOMAIN active[1] # {}
    THEN PriceStage(
             SoldStage(
                 MemberStage(
                     MemberStage(
                         MemberStage(list, active[1], "seasons", "season"),
                         active[1], "sections", "section"),
                     active[1], "suppliers", "supplier"),
                 active[1], sales),
             active[1])
    ELSE list

\* article.x?.toLowerCase().includes(query) over the searched fields.
SearchedFields ==
    {"articleCode", "articleName", "colorCode", "colorName", "treatmentName",
     "section", "season", "supplier"}

MatchesQuery(a, query) ==
    \E k \in SearchedFields \cap DOMAIN a : Includes(ToLowerCase(a[k]), query)

\* The search stage, applied when the query is not blank.
SearchStage(list, searchText) ==
    IF Trim(searchText) # <<>>
    THEN SelectSeq(list, LAMBDA a : MatchesQuery(a, ToLowerCase(searchText)))
    ELSE list

\* The mutation of SortStage below: the sort key is applied in every view mode.
SortStageAlways(list, mode, sort) == SortBy(sort, <<>>, list)

\* The sort stage, skipped in view mode 'recent'.
SortStage(list, mode, sort) ==
    IF mode # "recent" THEN SortBy(sort, <<>>, list) ELSE list

\* filterAndSortArticles: the list it hands to setFilteredArticles.
FilterAndSort(list, mode, favs, recents, active, sales, searchText, sort) ==
    SortStage(SearchStage(FilterStage(ViewStage(list, mode, favs, recents), active, sales),
                          searchText),
              mode, sort)

\* `${article.articleName || 'Unknown'}_${article.articleCode || 'NoCode'}`
GroupKey(a) ==
    (IF FieldOr(a, "articleName", <<>>) # <<>> THEN a.articleName ELSE <<"Unknown">>)
        \o <<"_">>
        \o (IF FieldOr(a, "articleCode", <<>>) # <<>> THEN a.articleCode ELSE <<"NoCode">>)

\* The keys of the Map in insertion order: each key where it is first seen.
RECURSIVE FirstSeenKeys(_)
FirstSeenKeys(list) ==
    IF list = <<>> THEN <<>>
    ELSE LET earlier == FirstSeenKeys(SubSeq(list, 1, Len(list) - 1))
             key == GroupKey(list[Len(list)])
         IN IF Has(earlier, key) THEN earlier ELSE earlier \o <<key>>

\* The mutation of VariantsOf below: the variants of a key, newest first.
RECURSIVE VariantsReversed(_, _)
VariantsReversed(list, key) ==
    IF list = <<>> THEN <<>>
    ELSE IF GroupKey(Head(list)) = key
         THEN VariantsReversed(Tail(list), key) \o <<Head(list)>>
         ELSE VariantsReversed(Tail(list), key)

\* groups.get(groupKey).push(article): the records of a key in input order.
VariantsOf(list, key) == SelectSeq(list, LAMBDA a : GroupKey(a) = key)

\* groupArticles
GroupArticles(list) ==
    LET keys == FirstSeenKeys(list)
    IN [g \in 1..Len(keys) |->
           LET variants == VariantsOf(list, keys[g])
           IN [groupKey |-> keys[g], mainArticle |-> variants[1], variants |-> variants,
               variantCount |-> Len(variants)]]

\* The list on screen becomes `list`; the effect on [filteredArticles] groups it.
SetFiltered(list) ==
    /\ filteredArticles' = list
    /\ groupedArticles' = GroupArticles(list)

\* loadFilters: the value it hands to setActiveFilters.
EmptyObject == <<>>

HasFilters(filters) ==
    \/ FieldOr(filters, "seasons", <<>>) # <<>>
    \/ FieldOr(filters, "sections", <<>>) # <<>>
    \/ FieldOr(filters, "suppliers", <<>>) # <<>>
    \/ FieldOr(filters, "minPrice", <<>>) # <<>>
    \/ FieldOr(filters, "maxPrice", <<>>) # <<>>
    \/ FieldOr(filters, "soldItemsOnly", FALSE)

\* The mutation of ActiveFrom below: a stored set without values leaves the
\* active filters as they were.
ActiveFromKeep(stored, current) ==
    IF stored # NULL /\ stored[1] # EmptyObject /\ HasFilters(stored[1])
    THEN Some(stored[1]) ELSE current

ActiveFrom(stored, current) ==
    IF stored # NULL /\ stored[1] # EmptyObject /\ HasFilters(stored[1])
    THEN Some(stored[1]) ELSE NULL

\* The focus effect: loadFilters and loadSalesHistory are started.
StartFocusLoads ==
    /\ filtersLoading' = TRUE
    /\ salesLoading' = TRUE

\* Every handler of the home list leaves these alone.
BrowseFrame ==
    /\ alert' = <<"none">>
    /\ dialogChoice' = "none"
    /\ UNCHANGED <<now, storeVars, detailVars, platform, stats, fileContent, articles, loading, pendingImport,
                   pricingVars>>

\* A view mode tab is pressed; the filter effect runs when the mode changes.
SetViewMode(mode) ==
    /\ screen = "home"
    /\ viewMode' = mode
    /\ IF mode # viewMode
       THEN SetFiltered(FilterAndSort(articles, mode, favorites, recentArticles,
                                      activeFilters, homeSales, searchQuery, currentSort))
       ELSE UNCHANGED <<filteredArticles, groupedArticles>>
    /\ UNCHANGED <<screen, filterStore, recentStore, favoritesStore, searchQuery, favorites,
                   recentArticles, currentSort, activeFilters, homeSales, filtersLoading,
                   salesLoading>>
    /\ BrowseFrame

\* A sort option is pressed.
SetCurrentSort(sort) ==
    /\ screen = "home"
    /\ currentSort' = sort
    /\ IF sort # currentSort
       THEN SetFiltered(FilterAndSort(articles, viewMode, favorites, recentArticles,
                                      activeFilters, homeSales, searchQuery, sort))
       ELSE UNCHANGED <<filteredArticles, groupedArticles>>
    /\ UNCHANGED <<screen, filterStore, recentStore, favoritesStore, searchQuery, favorites,
                   recentArticles, viewMode, activeFilters, homeSales, filtersLoading,
                   salesLoading>>
    /\ BrowseFrame

\* The user types in the search box.
SetSearchQuery(text) ==
    /\ screen = "home"
    /\ searchQuery' = text
    /\ IF text # searchQuery
       THEN SetFiltered(FilterAndSort(articles, viewMode, favorites, recentArticles,
                                      activeFilters, homeSales, text, currentSort))
       ELSE UNCHANGED <<filteredArticles, groupedArticles>>
    /\ UNCHANGED <<screen, filterStore, recentStore, favoritesStore, favorites,
                   recentArticles, viewMode, currentSort, activeFilters, homeSales,
                   filtersLoading, salesLoading>>
    /\ BrowseFrame

\* toggleFavorite(filteredArticles[i].id), saveFavorites included.
ToggleFavorite(i) ==
    /\ screen = "home"
    /\ i \in 1..Len(filteredArticles)
    /\ LET id == filteredArticles[i].id
           newFavorites == IF Has(favorites, id)
                           THEN SelectSeq(favorites, LAMBDA x : x # id)
                           ELSE favorites \o <<id>>
       IN /\ favoritesStore' = Some(newFavorites)
          /\ favorites' = newFavorites
          /\ SetFiltered(FilterAndSort(articles, viewMode, newFavorites, recentArticles,
                                       activeFilters, homeSales, searchQuery, currentSort))
    /\ UNCHANGED <<screen, filterStore, recentStore, searchQuery, recentArticles, viewMode,
                   currentSort, activeFilters, homeSales, filtersLoading, salesLoading>>
    /\ BrowseFrame

\* The number of recently viewed ids kept.
RecentCap == 10

\* Mutant of NewRecent: the id is put in front without the filter.
NewRecentUnfiltered(recents, id) ==
    LET list == <<id>> \o recents
    IN SubSeq(list, 1, IF Len(list) > RecentCap THEN RecentCap ELSE Len(list))

\* [articleId, ...recentArticles.filter(id => id !== articleId)].slice(0, 10)
NewRecent(recents, id) ==
    LET list == <<id>> \o SelectSeq(recents, LAMBDA x : x # id)
    IN SubSeq(list, 1, IF Len(list) > RecentCap THEN RecentCap ELSE Len(list))

\* A card of the list is pressed: addToRecent(id), then the detail screen.
OpenFromList(i) ==
    /\ screen = "home"
    /\ i \in 1..Len(filteredArticles)
    /\ LET newRecent == NewRecent(recentArticles, filteredArticles[i].id)
       IN /\ recentStore' = Some(newRecent)
          /\ recentArticles' = newRecent
          /\ SetFiltered(FilterAndSort(articles, viewMode, favorites, newRecent,
                                       activeFilters, homeSales, searchQuery, currentSort))
    /\ screen' = "detail"
    /\ UNCHANGED <<filterStore, favoritesStore, searchQuery, favorites, viewMode,
                   currentSort, activeFilters, homeSales, filtersLoading, salesLoading>>
    /\ BrowseFrame

\* The sale saveSale adds for the article on the detail screen.
SaleFor(a, input, t) ==
    [id |-> NumStr(t), timestamp |-> t, articleId |-> a.id,
     articleCode |-> a.articleCode,
     customer |-> Trim(input.customer), color |-> Trim(input.color),
     quantity |-> Trim(input.quantity), price |-> Trim(input.price),
     currency |-> input.currency, unit |-> input.unit]

\* On the detail screen of the article opened last, a new sale is saved.
DetailRecordsSale(input) ==
    /\ screen = "detail"
    /\ recentArticles # <<>>
    /\ FindArticle(articles, recentArticles[1]) # NULL
    /\ LET a == FindArticle(articles, recentArticles[1])[1]
           allHistory == ParseOrEmpty(salesStore)
       IN salesStore' = Some(PutList(allHistory, a.id,
                                     Unshift(GetList(allHistory, a.id),
                                             SaleFor(a, input, now))))
    /\ alert' = <<"Sale recorded successfully">>
    /\ dialogChoice' = "none"
    /\ UNCHANGED <<now, registryStore, pricingStore, detailVars, platform, stats, fileContent, articles, loading,
                   pendingImport, browseVars, pricingVars>>

\* router.push('/filter')
OpenFilterScreen ==
    /\ screen = "home"
    /\ screen' = "filter"
    /\ UNCHANGED <<filterStore, recentStore, favoritesStore, searchQuery, favorites,
                   recentArticles, viewMode, currentSort, activeFilters, homeSales,
                   filteredArticles, groupedArticles, filtersLoading, salesLoading>>
    /\ BrowseFrame

\* applyFilters of the filter screen, then back to the home screen.
ApplyFilters(filters) ==
    /\ screen = "filter"
    /\ filterStore' = Some(filters)
    /\ screen' = "home"
    /\ StartFocusLoads
    /\ UNCHANGED <<recentStore, favoritesStore, searchQuery, favorites, recentArticles,
                   viewMode, currentSort, activeFilters, homeSales, filteredArticles,
                   groupedArticles>>
    /\ BrowseFrame

\* clearFilters of the filter screen, then back to the home screen.
ClearFilters ==
    /\ screen = "filter"
    /\ filterStore' = Some(EmptyObject)
    /\ screen' = "home"
    /\ StartFocusLoads
    /\ UNCHANGED <<recentStore, favoritesStore, searchQuery, favorites, recentArticles,
                   viewMode, currentSort, activeFilters, homeSales, filteredArticles,
                   groupedArticles>>
    /\ BrowseFrame

\* Back from the detail or the filter screen: the home screen regains focus.
GoBack ==
    /\ screen # "home"
    /\ screen' = "home"
    /\ StartFocusLoads
    /\ UNCHANGED <<filterStore, recentStore, favoritesStore, searchQuery, favorites,
                   recentArticles, viewMode, currentSort, activeFilters, homeSales,
                   filteredArticles, groupedArticles>>
    /\ BrowseFrame

\* The clear button of the home screen, shown while a filter is active.
ClearFiltersHome ==
    /\ screen = "home"
    /\ activeFilters # NULL /\ HasFilters(activeFilters[1])
    /\ filterStore' = Some(EmptyObject)
    /\ activeFilters' = NULL
    /\ SetFiltered(FilterAndSort(articles, viewMode, favorites, recentArticles, NULL,
                                 homeSales, searchQuery, currentSort))
    /\ UNCHANGED <<screen, recentStore, favoritesStore, searchQuery, favorites,
                   recentArticles, viewMode, currentSort, homeSales, filtersLoading,
                   salesLoading>>
    /\ BrowseFrame

\* loadFilters once the store has answered.  A parsed filter set is a new
\* object, so the filter effect runs; it does not run from null to null.
LoadFiltersDone ==
    /\ filtersLoading
    /\ filtersLoading' = FALSE
    /\ activeFilters' = ActiveFrom(filterStore, activeFilters)
    /\ IF activeFilters' # NULL \/ activeFilters # NULL
       THEN SetFiltered(FilterAndSort(articles, viewMode, favorites, recentArticles,
                                      activeFilters', homeSales, searchQuery, currentSort))
       ELSE UNCHANGED <<filteredArticles, groupedArticles>>
    /\ UNCHANGED <<screen, filterStore, recentStore, favoritesStore, searchQuery, favorites,
                   recentArticles, viewMode, currentSort, homeSales, salesLoading>>
    /\ BrowseFrame

\* loadSalesHistory of the home screen once the store has answered:
\* salesHistory is no dependency of the filter effect, which does not run.
LoadSalesHistoryDone ==
    /\ salesLoading
    /\ salesLoading' = FALSE
    /\ homeSales' = IF salesStore = NULL THEN homeSales ELSE salesStore[1]
    /\ UNCHANGED <<screen, filterStore, recentStore, favoritesStore, searchQuery, favorites,
                   recentArticles, viewMode, currentSort, activeFilters, filteredArticles,
                   groupedArticles, filtersLoading>>
    /\ BrowseFrame

\* setArticles(list): the filter effect runs on the new collection.
ArticlesEffect(list) ==
    /\ SetFiltered(FilterAndSort(list, viewMode, favorites, recentArticles, activeFilters,
                                 homeSales, searchQuery, currentSort))
    /\ UNCHANGED <<screen, filterStore, recentStore, favoritesStore, searchQuery, favorites,
                   recentArticles, viewMode, currentSort, activeFilters, homeSales,
                   filtersLoading, salesLoading>>

\* ------------------------------------------------------------------ home screen: import
\* loadLocalArticles once the store has answered: if (stored) setArticles(data).
LoadedArticles(stored, current) == IF stored = NULL THEN current ELSE stored[1]

\* A load is in flight when the spinner shows and no import dialog is open.
LoadInFlight == loading /\ pendingImport = NULL

\* Pull to refresh: onRefresh starts loadLocalArticles, which sets loading.
Refresh ==
    /\ ~loading
    /\ loading' = TRUE
    /\ alert' = <<"none">>
    /\ dialogChoice' = "none"
    /\ UNCHANGED <<now, storeVars, detailVars, platform, stats, fileContent, articles, pendingImport,
                   browseVars, pricingVars>>

\* loadLocalArticles, from the store's answer to its finally block.
LoadLocalArticlesDone ==
    /\ LoadInFlight
    /\ articles' = LoadedArticles(registryStore, articles)
    /\ IF registryStore # NULL THEN ArticlesEffect(articles') ELSE UNCHANGED browseVars
    /\ loading' = FALSE
    /\ alert' = <<"none">>
    /\ dialogChoice' = "none"
    /\ UNCHANGED <<now, storeVars, detailVars, platform, stats, fileContent, pendingImport, pricingVars>>

\* Mutant of Merged: the imported rows before the existing ones.
MergedNewFirst(existing, added) == added \o existing

\* [...articles, ...articlesWithIds]
Merged(existing, added) == existing \o added

\* proceedWithImport on the web, from the file chosen to the end of
\* reader.onload; window.confirm answers shouldReplace (OK) or not (Cancel).
ImportWeb(text, shouldReplace) ==
    /\ platform = "web"
    /\ ~loading
    /\ LET parsedArticles == ParseCSV(text)
           articlesWithIds == ArticlesWithIds(parsedArticles, now)
           merged == Merged(articles, articlesWithIds)
       IN IF Len(parsedArticles) = 0
          THEN /\ shouldReplace
               /\ alert' = <<"No valid articles found in CSV file">>
               /\ dialogChoice' = "none"
               /\ UNCHANGED <<articles, registryStore, browseVars>>
          ELSE IF shouldReplace
               THEN /\ articles' = articlesWithIds
                    /\ ArticlesEffect(articlesWithIds)
                    /\ registryStore' = Some(articlesWithIds)
                    /\ alert' = <<"Successfully imported", NumStr(Len(parsedArticles))>>
                    /\ dialogChoice' = "OK"
               ELSE /\ Len(merged) <= MaxArticles
                    /\ articles' = merged
                    /\ ArticlesEffect(merged)
                    /\ registryStore' = Some(merged)
                    /\ alert' = <<"Successfully added", NumStr(Len(parsedArticles))>>
                    /\ dialogChoice' = "Cancel"
    /\ fileContent' = Some(text)
    /\ UNCHANGED <<now, salesStore, pricingStore, detailVars, platform, stats, loading,
                   pendingImport, pricingVars>>

\* proceedWithImport on a phone, from the document picked to the "Import
\* Mode" dialog; the dialog's buttons keep the articles of this render.
ImportFile(text) ==
    /\ platform = "mobile"
    /\ ~loading
    /\ LET parsedArticles == ParseCSV(text)
       IN IF Len(parsedArticles) = 0
          THEN /\ alert' = <<"No valid articles found in CSV file">>
               /\ UNCHANGED <<loading, pendingImport>>
          ELSE /\ alert' = <<"Import Mode", NumStr(Len(parsedArticles))>>
               /\ loading' = TRUE
               /\ pendingImport' = Some([articlesWithIds |->
                                             ArticlesWithIds(parsedArticles, now),
                                         articles |-> articles])
    /\ dialogChoice' = "none"
    /\ fileContent' = Some(text)
    /\ UNCHANGED <<now, storeVars, detailVars, platform, stats, articles, browseVars, pricingVars>>

\* Mutant of ImportCancel: Cancel drops the collection on screen.
ImportCancelClears ==
    /\ pendingImport # NULL
    /\ articles' = <<>>
    /\ ArticlesEffect(<<>>)
    /\ loading' = FALSE
    /\ pendingImport' = NULL
    /\ alert' = <<"none">>
    /\ dialogChoice' = "Cancel"
    /\ UNCHANGED <<now, storeVars, detailVars, platform, stats, fileContent, pricingVars>>

\* The Cancel button of the "Import Mode" dialog.
ImportCancel ==
    /\ pendingImport # NULL
    /\ loading' = FALSE
    /\ pendingImport' = NULL
    /\ alert' = <<"none">>
    /\ dialogChoice' = "Cancel"
    /\ UNCHANGED <<now, storeVars, detailVars, platform, stats, fileContent, articles, browseVars, pricingVars>>

\* Mutant of ImportReplace: Replace All drops the ledger of the old collection.
ImportReplaceDropsLedger ==
    /\ pendingImport # NULL
    /\ articles' = pendingImport[1].articlesWithIds
    /\ ArticlesEffect(pendingImport[1].articlesWithIds)
    /\ registryStore' = Some(pendingImport[1].articlesWithIds)
    /\ salesStore' = NULL
    /\ loading' = FALSE
    /\ pendingImport' = NULL
    /\ alert' = <<"Imported", NumStr(Len(pendingImport[1].articlesWithIds))>>
    /\ dialogChoice' = "Replace All"
    /\ UNCHANGED <<now, pricingStore, detailVars, platform, stats, fileContent, pricingVars>>

\* The "Replace All" button of the "Import Mode" dialog.
ImportReplace ==
    /\ pendingImport # NULL
    /\ articles' = pendingImport[1].articlesWithIds
    /\ ArticlesEffect(pendingImport[1].articlesWithIds)
    /\ registryStore' = Some(pendingImport[1].articlesWithIds)
    /\ loading' = FALSE
    /\ pendingImport' = NULL
    /\ alert' = <<"Imported", NumStr(Len(pendingImport[1].articlesWithIds))>>
    /\ dialogChoice' = "Replace All"
    /\ UNCHANGED <<now, salesStore, pricingStore, detailVars, platform, stats, fileContent, pricingVars>>

\* The "Append" button of the "Import Mode" dialog.
ImportAppend ==
    /\ pendingImport # NULL
    /\ LET merged == Merged(pendingImport[1].articles, pendingImport[1].articlesWithIds)
       IN /\ Len(merged) <= MaxArticles
          /\ articles' = merged
          /\ ArticlesEffect(merged)
          /\ registryStore' = Some(merged)
    /\ loading' = FALSE
    /\ pendingImport' = NULL
    /\ alert' = <<"Added", NumStr(Len(pendingImport[1].articlesWithIds))>>
    /\ dialogChoice' = "Append"
    /\ UNCHANGED <<now, salesStore, pricingStore, detailVars, platform, stats, fileContent, pricingVars>>

\* ------------------------------------------------------------------ pricing calculator
\* The number of calculations kept per article.
HistoryCap == 20

\* MARKETS, the commission in half percents.
Markets ==
    << [label |-> "Italy", value |-> "italy", commission |-> 10, region |-> "europe"],
       [label |-> "Spain", value |-> "spain", commission |-> 12, region |-> "europe"],
       [label |-> "France", value |-> "france", commission |-> 10, region |-> "europe"],
       [label |-> "USA", value |-> "usa", commission |-> 20, region |-> "usa"],
       [label |-> "Other Countries", value |-> "other", commission |-> 10, region |-> "other"] >>

MarketValues == {Markets[i].value : i \in 1..Len(Markets)}

\* MARKETS.find(m => m.value === v), for a v that MARKETS holds.
FindMarket(v) == Markets[CHOOSE i \in 1..Len(Markets) : Markets[i].value = v]

\* parseFloat of a form field.
ParseFloatField(x) == IF x >= 0 THEN x ELSE NaN

\* The mutation of OrElse below: the default left out.
OrElseNothing(x, d) == x

\* x || d for a number x: d when x is NaN or 0.
OrElse(x, d) == IF x = NaN \/ x = 0 THEN d ELSE x

\* Truthiness of a text that may be missing: false for undefined and for "".
Truthy(x) == x # Undefined /\ x # EmptyText

\* (x * 100).toFixed(0) of a commission x: the nearest whole percent, a half
\* rounding up; "NaN" for NaN.
ToFixed0(x) == IF x = NaN THEN NaN ELSE 2 * ((x + 1) \div 2)

\* article.basePriceEUR, "" standing for the missing key as well (both falsy).
BasePriceText(a) == IF "basePriceEUR" \in DOMAIN a THEN a.basePriceEUR ELSE <<>>

\* article.articleName || 'N/A'
ArticleNameOrNA(a) ==
    IF "articleName" \in DOMAIN a /\ a.articleName # <<>> THEN a.articleName ELSE <<"N/A">>

\* The form of the calculator as one record.
Form ==
    [selectedMarket |-> selectedMarket, customCommission |-> customCommission,
     profitMarginEurope |-> profitMarginEurope, profitMarginUSA |-> profitMarginUSA,
     profitMarginOther |-> profitMarginOther, transportTruck |-> transportTruck,
     transportAir |-> transportAir, useTransport |-> useTransport,
     transportType |-> transportType, useSampling |-> useSampling,
     samplingRate |-> samplingRate, fxRate |-> fxRate]

\* The useState defaults, before the first effect.
DefaultForm ==
    [selectedMarket |-> "italy", customCommission |-> 10,
     profitMarginEurope |-> 80, profitMarginUSA |-> 120, profitMarginOther |-> 100,
     transportTruck |-> 30, transportAir |-> 100, useTransport |-> FALSE,
     transportType |-> "truck", useSampling |-> FALSE, samplingRate |-> 30,
     fxRate |-> 110]

\* The margin field of the selected market's region.
MarginOf(f) ==
    LET region == FindMarket(f.selectedMarket).region
    IN IF region = "europe" THEN f.profitMarginEurope
       ELSE IF region = "usa" THEN f.profitMarginUSA ELSE f.profitMarginOther

\* The mutation of TransportCostOf below: the two costs exchanged.
TransportCostSwapped(f) == IF f.transportType = "truck" THEN f.transportAir ELSE f.transportTruck

\* transportType === 'truck' ? transportTruck : transportAir
TransportCostOf(f) == IF f.transportType = "truck" THEN f.transportTruck ELSE f.transportAir

\* The price in EUR/mt after commission, transport and sampling, kept exact
\* as the numerator of a fraction over 2000000:
\* ((base + margin) * (1 + commission) + transport) * (1 + surcharge / 100).
EurNumerator(a, f) ==
    LET basePrice == OrElse(ParseFloat(BasePriceText(a)), 0)
        profitMargin == OrElse(ParseFloatField(MarginOf(f)), 0)
        commissionRate == OrElse(ParseFloatField(f.customCommission), 0)
        withCommission == (basePrice + profitMargin) * (200 + commissionRate)
        transport == IF f.useTransport
                     THEN OrElse(ParseFloatField(TransportCostOf(f)), 0) ELSE 0
        withTransport == withCommission + 200 * transport
        surcharge == IF f.useSampling THEN OrElse(ParseFloatField(f.samplingRate), 0) ELSE 0
    IN withTransport * (100 + surcharge)

\* The mutation of UsdConversion below: the exchange rate left out.
UsdConversionNoFx(num, f) == [num |-> num, fx |-> 100, unit |-> "USD/yrd"]

\* (price * fx) / 1.09361 with fx = parseFloat(fxRate) || 1: the price in
\* USD/yrd is num * fx / (200000000 * 1.09361), the product left unevaluated.
UsdConversion(num, f) ==
    [num |-> num, fx |-> OrElse(ParseFloatField(f.fxRate), 100), unit |-> "USD/yrd"]

\* calculatePrice, the price it hands to setFinalPrice: num / 2000000 EUR/mt,
\* converted last to USD/yrd for the USA.
CalculatePrice(a, f) ==
    IF FindMarket(f.selectedMarket).region = "usa"
    THEN UsdConversion(EurNumerator(a, f), f)
    ELSE [num |-> EurNumerator(a, f), unit |-> "EUR/mt"]

CommissionEffectOff(before, after) == after

\* The effect on [selectedMarket]: when the market of this render differs from
\* the one of the last, the commission field becomes the market's default.
CommissionEffect(before, after) ==
    IF after.selectedMarket # before.selectedMarket
    THEN [after EXCEPT !.customCommission =
                           ToFixed0(FindMarket(after.selectedMarket).commission)]
    ELSE after

\* The effect on the form fields: calculatePrice, which returns early (the
\* price on screen stays) without an article or without a base price.
PriceEffect(a, f, price) ==
    IF a = NULL \/ BasePriceText(a[1]) = <<>> THEN price
    ELSE Some(CalculatePrice(a[1], f))

\* The form fields become those of f.
SetForm(f) ==
    /\ selectedMarket' = f.selectedMarket
    /\ customCommission' = f.customCommission
    /\ profitMarginEurope' = f.profitMarginEurope
    /\ profitMarginUSA' = f.profitMarginUSA
    /\ profitMarginOther' = f.profitMarginOther
    /\ transportTruck' = f.transportTruck
    /\ transportAir' = f.transportAir
    /\ useTransport' = f.useTransport
    /\ transportType' = f.transportType
    /\ useSampling' = f.useSampling
    /\ samplingRate' = f.samplingRate
    /\ fxRate' = f.fxRate

\* A handler has set the form to `after`: the render and its effects.
Render(a, before, after) ==
    LET f == CommissionEffect(before, after)
    IN /\ SetForm(f)
       /\ finalPrice' = PriceEffect(a, f, finalPrice)

\* loadPricingHistory: the list it puts on screen (the current list when the
\* key is absent).
LoadedCalculations(stored, id, current) ==
    IF stored = NULL THEN current
    ELSE SortByTimestampDesc(GetList(stored[1], id))

\* The screen mounts for the article of the route: the form at its defaults,
\* the first run of the effects, loadArticle and loadPricingHistory.
OpenPricing(id) ==
    LET found == IF registryStore = NULL THEN NULL ELSE FindArticle(registryStore[1], id)
        f == [DefaultForm EXCEPT !.customCommission =
                                     ToFixed0(FindMarket(DefaultForm.selectedMarket).commission)]
    IN /\ pricingArticle = NULL
       /\ pricingArticle' = found
       /\ pricingHistory' = IF found = NULL THEN <<>>
                            ELSE LoadedCalculations(pricingStore, id, <<>>)
       /\ SetForm(f)
       /\ finalPrice' = PriceEffect(found, f, NULL)
       /\ alert' = IF registryStore # NULL /\ found = NULL
                   THEN <<"Article not found">> ELSE <<"none">>
       /\ pickedMarket' = "none"
       /\ UNCHANGED <<now, storeVars, detailVars, homeVars, stats>>

\* router.back(): the screen unmounts and its state is dropped.
ClosePricing ==
    /\ pricingArticle # NULL
    /\ pricingArticle' = NULL
    /\ pricingHistory' = <<>>
    /\ SetForm(DefaultForm)
    /\ finalPrice' = NULL
    /\ alert' = <<"none">>
    /\ pickedMarket' = "none"
    /\ UNCHANGED <<now, storeVars, detailVars, homeVars, stats>>

\* Every handler of the form but the history ones leaves these alone.
FormHandlerFrame ==
    /\ alert' = <<"none">>
    /\ UNCHANGED <<now, storeVars, detailVars, homeVars, stats, pricingArticle, pricingHistory>>

\* A market is pressed in the market picker.
SelectMarket(m) ==
    /\ pricingArticle # NULL
    /\ Render(pricingArticle, Form, [Form EXCEPT !.selectedMarket = m])
    /\ pickedMarket' = m
    /\ FormHandlerFrame

\* The user types a commission.
SetCustomCommission(c) ==
    /\ pricingArticle # NULL
    /\ Render(pricingArticle, Form, [Form EXCEPT !.customCommission = c])
    /\ pickedMarket' = "none"
    /\ FormHandlerFrame

\* The user types the margin of the selected market's region.
SetProfitMargin(v) ==
    LET region == FindMarket(selectedMarket).region
    IN /\ pricingArticle # NULL
       /\ Render(pricingArticle, Form,
                 IF region = "europe" THEN [Form EXCEPT !.profitMarginEurope = v]
                 ELSE IF region = "usa" THEN [Form EXCEPT !.profitMarginUSA = v]
                 ELSE [Form EXCEPT !.profitMarginOther = v])
       /\ pickedMarket' = "none"
       /\ FormHandlerFrame

\* The transport switch.
ToggleTransport ==
    /\ pricingArticle # NULL
    /\ Render(pricingArticle, Form, [Form EXCEPT !.useTransport = ~useTransport])
    /\ pickedMarket' = "none"
    /\ FormHandlerFrame

\* The sampling switch.
ToggleSampling ==
    /\ pricingArticle # NULL
    /\ Render(pricingArticle, Form, [Form EXCEPT !.useSampling = ~useSampling])
    /\ pickedMarket' = "none"
    /\ FormHandlerFrame

\* Truck or Air is pressed (the buttons show while transport is on).
SetTransportType(t) ==
    /\ pricingArticle # NULL
    /\ useTransport
    /\ Render(pricingArticle, Form, [Form EXCEPT !.transportType = t])
    /\ pickedMarket' = "none"
    /\ FormHandlerFrame

\* The user types the cost of the selected transport type.
SetTransportCost(v) ==
    /\ pricingArticle # NULL
    /\ useTransport
    /\ Render(pricingArticle, Form,
              IF transportType = "truck" THEN [Form EXCEPT !.transportTruck = v]
              ELSE [Form EXCEPT !.transportAir = v])
    /\ pickedMarket' = "none"
    /\ FormHandlerFrame

\* A sampling preset is pressed or a rate typed (shown while sampling is on).
SetSamplingRate(v) ==
    /\ pricingArticle # NULL
    /\ useSampling
    /\ Render(pricingArticle, Form, [Form EXCEPT !.samplingRate = v])
    /\ pickedMarket' = "none"
    /\ FormHandlerFrame

\* The user types the exchange rate (the field shows for the USA region).
SetFxRate(v) ==
    /\ pricingArticle # NULL
    /\ FindMarket(selectedMarket).region = "usa"
    /\ Render(pricingArticle, Form, [Form EXCEPT !.fxRate = v])
    /\ pickedMarket' = "none"
    /\ FormHandlerFrame

\* The calculation savePricingCalculation builds at clock reading t.
Calculation(a, f, price, t) ==
    LET market == FindMarket(f.selectedMarket)
    IN [id |-> NumStr(t),
        timestamp |-> t,
        articleId |-> a.id,
        articleCode |-> FieldText(a, "articleCode"),
        articleName |-> ArticleNameOrNA(a),
        market |-> f.selectedMarket,
        marketLabel |-> market.label,
        profitMargin |-> MarginOf(f),
        useTransport |-> f.useTransport,
        transportType |-> IF f.useTransport THEN f.transportType ELSE "undefined",
        transportCost |-> IF f.useTransport THEN TransportCostOf(f) ELSE Undefined,
        useSampling |-> f.useSampling,
        samplingRate |-> IF f.useSampling THEN f.samplingRate ELSE Undefined,
        fxRate |-> IF market.region = "usa" THEN f.fxRate ELSE Undefined,
        finalPrice |-> price,
        basePrice |-> OrElse(ParseFloat(BasePriceText(a)), 0),
        commission |-> ParseFloatField(f.customCommission)]

\* JSON.stringify then JSON.parse of a calculation: a NaN commission comes
\* back as null, which `item.commission * 100` reads as 0.
JsonCalculation(c) == [c EXCEPT !.commission = IF c.commission = NaN THEN 0 ELSE c.commission]

JsonCalculations(list) == [i \in 1..Len(list) |-> JsonCalculation(list[i])]

\* allHistory[article.id].unshift(calculation)
UnshiftCalculation(list, c) == <<c>> \o list

KeepAll(list) == list

\* if (length > 20) slice(0, 20): keep only the last 20 calculations.
KeepLast20(list) == IF Len(list) > HistoryCap THEN SubSeq(list, 1, HistoryCap) ELSE list

\* savePricingCalculation
SavePricingCalculation ==
    /\ pricingArticle # NULL
    /\ finalPrice # NULL
    /\ LET allHistory == ParseOrEmpty(pricingStore)
           calculation == Calculation(pricingArticle[1], Form, finalPrice[1], now)
           list == KeepLast20(UnshiftCalculation(GetList(allHistory, pricingArticle[1].id),
                                                 calculation))
       IN /\ pricingStore' = Some(PutList(allHistory, pricingArticle[1].id,
                                          JsonCalculations(list)))
          /\ pricingHistory' = list
    /\ alert' = <<"Pricing calculation saved to history">>
    /\ pickedMarket' = "none"
    /\ UNCHANGED <<now, registryStore, salesStore, detailVars, homeVars, stats, pricingArticle,
                   formVars, finalPrice>>

\* The form loadHistoryItem sets from a calculation, before the effects.
FormOfItem(f, item) ==
    LET region == FindMarket(item.market).region
        f1 == [f EXCEPT !.selectedMarket = item.market]
        f2 == IF region = "europe" THEN [f1 EXCEPT !.profitMarginEurope = item.profitMargin]
              ELSE IF region = "usa"
                   THEN [f1 EXCEPT !.profitMarginUSA = item.profitMargin,
                                   !.fxRate = IF Truthy(item.fxRate) THEN item.fxRate ELSE @]
                   ELSE [f1 EXCEPT !.profitMarginOther = item.profitMargin]
        f3 == [f2 EXCEPT !.useTransport = item.useTransport]
        f4 == IF item.useTransport /\ item.transportType # "undefined"
                 /\ Truthy(item.transportCost)
              THEN IF item.transportType = "truck"
                   THEN [f3 EXCEPT !.transportType = "truck",
                                   !.transportTruck = item.transportCost]
                   ELSE [f3 EXCEPT !.transportType = item.transportType,
                                   !.transportAir = item.transportCost]
              ELSE f3
        f5 == [f4 EXCEPT !.useSampling = item.useSampling]
        f6 == IF item.useSampling /\ Truthy(item.samplingRate)
              THEN [f5 EXCEPT !.samplingRate = item.samplingRate] ELSE f5
    IN [f6 EXCEPT !.customCommission = ToFixed0(item.commission)]

\* loadHistoryItem(pricingHistory[i]) and the effects of its render.
LoadHistoryItem(i) ==
    /\ pricingArticle # NULL
    /\ i \in 1..Len(pricingHistory)
    /\ Render(pricingArticle, Form, FormOfItem(Form, pricingHistory[i]))
    /\ alert' = <<"Previous calculation loaded successfully">>
    /\ pickedMarket' = "none"
    /\ UNCHANGED <<now, storeVars, detailVars, homeVars, stats, pricingArticle, pricingHistory>>

\* filter(item => item.id !== itemId)
RemoveCalculation(list, itemId) == SelectSeq(list, LAMBDA item : item.id # itemId)

\* deleteHistoryItem(pricingHistory[i].id)
DeleteHistoryItem(i) ==
    /\ pricingArticle # NULL
    /\ i \in 1..Len(pricingHistory)
    /\ pricingStore # NULL
    /\ pricingArticle[1].id \in DOMAIN pricingStore[1]
    /\ LET allHistory == pricingStore[1]
           list == RemoveCalculation(allHistory[pricingArticle[1].id], pricingHistory[i].id)
       IN /\ pricingStore' = Some(PutList(allHistory, pricingArticle[1].id, list))
          /\ pricingHistory' = list
    /\ alert' = <<"none">>
    /\ pickedMarket' = "none"
    /\ UNCHANGED <<now, registryStore, salesStore, detailVars, homeVars, stats, pricingArticle,
                   formVars, finalPrice>>

\* ------------------------------------------------------------------ dashboard
TopSellingCap == 5
RecentSalesCap == 10

\* useState<Stats>: the statistics before loadStats has answered.  An object
\* of counts is a function of the model, avg the pair <<sum, count>>;
\* quantities are in hundredths and revenues in ten-thousandths.
DefaultStats ==
    [total |-> 0, bySeason |-> <<>>, bySection |-> <<>>, bySupplier |-> <<>>,
     priceRange |-> [min |-> 0, max |-> 0, avg |-> <<0, 1>>],
     favoritesCount |-> 0, recentCount |-> 0,
     sales |-> [totalOrders |-> 0, totalQuantity |-> 0,
                totalRevenue |-> [EUR |-> 0, USD |-> 0],
                topSellingArticles |-> <<>>, recentSales |-> <<>>]]

\* parseFloat(x) || 0
ParseFloatOrZero(text) ==
    LET v == ParseNumber(text) IN IF v = NULL THEN 0 ELSE v[1]

\* bySeason[article.season] = (bySeason[article.season] || 0) + 1, for the
\* articles that have the field.
CountBy(list, field) ==
    LET values == {FieldOr(list[i], field, <<>>) : i \in 1..Len(list)} \ {<<>>}
    IN [v \in values |->
           Cardinality({i \in 1..Len(list) : FieldOr(list[i], field, <<>>) = v})]

\* The price range over the articles with a price above 0.
PriceRange(list) ==
    LET priced == {i \in 1..Len(list) : PriceOf(list[i]) # NULL /\ PriceOf(list[i])[1] > 0}
        price(i) == PriceOf(list[i])[1]
        RECURSIVE Sum(_)
        Sum(is) == IF is = {} THEN 0
                   ELSE LET i == CHOOSE x \in is : TRUE IN price(i) + Sum(is \ {i})
    IN IF priced = {} THEN [min |-> 0, max |-> 0, avg |-> <<0, 1>>]
       ELSE [min |-> price(CHOOSE i \in priced : \A j \in priced : price(i) <= price(j)),
             max |-> price(CHOOSE i \in priced : \A j \in priced : price(i) >= price(j)),
             avg |-> <<Sum(priced), Cardinality(priced)>>]

\* Object.entries(salesHistory).forEach(... sales.forEach(...)): the sales in
\* the order they are visited, the articles in the key order `keys`.
RECURSIVE VisitedSales(_, _)
VisitedSales(ledger, keys) ==
    IF keys = <<>> THEN <<>>
    ELSE ledger[Head(keys)] \o VisitedSales(ledger, Tail(keys))

\* The key orders of a stored object: the order in which the keys were first
\* written, which the maps of the model do not keep, so every order is taken.
KeyOrders(ledger) ==
    {keys \in [1..Cardinality(DOMAIN ledger) -> DOMAIN ledger] :
        \A i, j \in DOMAIN keys : i # j => keys[i] # keys[j]}

\* const qty = parseFloat(sale.quantity) || 0
Quantity(sale) == ParseFloatOrZero(sale.quantity)

\* const revenue = qty * price
Revenue(sale) == Quantity(sale) * ParseFloatOrZero(sale.price)

\* The mutation of RevenueIn below: a sale is added to the bucket whatever
\* its currency.
RevenueInAny(sale, currency) == Revenue(sale)

\* What a sale adds to the revenue bucket of `currency`.
RevenueIn(sale, currency) == IF sale.currency = currency THEN Revenue(sale) ELSE 0

\* The accumulators of loadStats over the visited sales: kind "quantity" for
\* totalQuantity, a currency for its revenue bucket.
RECURSIVE Accumulated(_, _)
Accumulated(kind, sales) ==
    IF sales = <<>> THEN 0
    ELSE (IF kind = "quantity" THEN Quantity(Head(sales)) ELSE RevenueIn(Head(sales), kind))
             + Accumulated(kind, Tail(sales))

\* The keys of articleSales in insertion order: each article code where it is
\* first seen.
RECURSIVE FirstSeenCodes(_)
FirstSeenCodes(sales) ==
    IF sales = <<>> THEN <<>>
    ELSE LET earlier == FirstSeenCodes(SubSeq(sales, 1, Len(sales) - 1))
             code == sales[Len(sales)].articleCode
         IN IF Has(earlier, code) THEN earlier ELSE earlier \o <<code>>

\* Object.values(articleSales)
ArticleSales(sales) ==
    LET codes == FirstSeenCodes(sales)
    IN [c \in 1..Len(codes) |->
           LET sold == SelectSeq(sales, LAMBDA sale : sale.articleCode = codes[c])
           IN [code |-> codes[c], name |-> sold[1].articleId,
               quantity |-> Accumulated("quantity", sold), orders |-> Len(sold)]]

\* .sort((a, b) => b.quantity - a.quantity): a stable sort, largest first.
RECURSIVE InsertByQuantity(_, _)
InsertByQuantity(x, s) ==
    IF s = <<>> THEN <<x>>
    ELSE IF Head(s).quantity > x.quantity
         THEN <<Head(s)>> \o InsertByQuantity(x, Tail(s))
         ELSE <<x>> \o s

RECURSIVE SortByQuantityDesc(_)
SortByQuantityDesc(s) ==
    IF s = <<>> THEN <<>>
    ELSE InsertByQuantity(Head(s), SortByQuantityDesc(Tail(s)))

\* .slice(0, n)
Slice(list, n) == SubSeq(list, 1, IF Len(list) < n THEN Len(list) ELSE n)

TopSellingArticles(sales) ==
    MapSeq(Slice(SortByQuantityDesc(ArticleSales(sales)), TopSellingCap),
           LAMBDA item : [articleCode |-> item.code, articleName |-> item.name,
                          quantity |-> item.quantity, orders |-> item.orders])

RecentSales(sales) ==
    Slice(SortByTimestampDesc(
              MapSeq(sales, LAMBDA sale :
                         [customer |-> sale.customer, articleCode |-> sale.articleCode,
                          quantity |-> sale.quantity, price |-> sale.price,
                          currency |-> sale.currency, timestamp |-> sale.timestamp])),
          RecentSalesCap)

\* The sales statistics of loadStats over the ledger visited in key order `keys`.
SalesStats(ledger, keys) ==
    LET sales == VisitedSales(ledger, keys)
    IN [totalOrders |-> Len(sales),
        totalQuantity |-> Accumulated("quantity", sales),
        totalRevenue |-> [EUR |-> Accumulated("EUR", sales),
                          USD |-> Accumulated("USD", sales)],
        topSellingArticles |-> TopSellingArticles(sales),
        recentSales |-> RecentSales(sales)]

\* stored ? JSON.parse(stored) : []
ParseOrNone(stored) == IF stored = NULL THEN <<>> ELSE stored[1]

\* loadStats, run when the dashboard mounts: the statistics are set when the
\* registry is stored.
LoadStats ==
    /\ IF registryStore # NULL
       THEN \E keys \in KeyOrders(ParseOrEmpty(salesStore)) :
                stats' = [total |-> Len(registryStore[1]),
                          bySeason |-> CountBy(registryStore[1], "season"),
                          bySection |-> CountBy(registryStore[1], "section"),
                          bySupplier |-> CountBy(registryStore[1], "supplier"),
                          priceRange |-> PriceRange(registryStore[1]),
                          favoritesCount |-> Len(ParseOrNone(favoritesStore)),
                          recentCount |-> Len(ParseOrNone(recentStore)),
                          sales |-> SalesStats(ParseOrEmpty(salesStore), keys)]
       ELSE UNCHANGED stats
    /\ UNCHANGED <<now, storeVars, alert, detailVars, homeVars, pricingVars>>

\* getTotalQuantitySold of the detail screen, over the sales it shows.
RECURSIVE GetTotalQuantitySold(_)
GetTotalQuantitySold(sales) ==
    IF sales = <<>> THEN 0
    ELSE ParseFloatOrZero(Head(sales).quantity) + GetTotalQuantitySold(Tail(sales))

\* ------------------------------------------------------------------ initial states
\* The registry left in the store by an earlier import of two rows.
SeedRegistry == <<WithId(RowA, 0, 0), WithId(RowB, 0, 1)>>

DetailInit ==
    /\ article = NULL
    /\ salesHistory = <<>>
    /\ showSalesModal = FALSE
    /\ showAddSaleModal = FALSE
    /\ editingSale = NULL
    /\ saleCustomer = <<>>
    /\ saleColor = <<>>
    /\ saleQuantity = <<>>
    /\ salePrice = <<>>
    /\ saleCurrency = "EUR"
    /\ saleUnit = "mt"
    /\ formVia = "none"

\* The list of the home screen as it mounts over an empty collection.
BrowseInit ==
    /\ screen = "home"
    /\ filterStore = NULL
    /\ recentStore = NULL
    /\ favoritesStore = NULL
    /\ searchQuery = <<>>
    /\ favorites = <<>>
    /\ recentArticles = <<>>
    /\ viewMode = "all"
    /\ currentSort = "name"
    /\ activeFilters = NULL
    /\ homeSales = EmptyMap
    /\ filteredArticles = <<>>
    /\ groupedArticles = <<>>
    /\ filtersLoading = FALSE
    /\ salesLoading = FALSE

HomeInit ==
    /\ platform = "mobile"
    /\ fileContent = NULL
    /\ stats = DefaultStats
    /\ articles = <<>>
    /\ loading = FALSE
    /\ pendingImport = NULL
    /\ dialogChoice = "none"
    /\ BrowseInit

\* The calculator before it mounts.
PricingInit ==
    /\ pricingArticle = NULL
    /\ pricingHistory = <<>>
    /\ selectedMarket = DefaultForm.selectedMarket
    /\ customCommission = DefaultForm.customCommission
    /\ profitMarginEurope = DefaultForm.profitMarginEurope
    /\ profitMarginUSA = DefaultForm.profitMarginUSA
    /\ profitMarginOther = DefaultForm.profitMarginOther
    /\ transportTruck = DefaultForm.transportTruck
    /\ transportAir = DefaultForm.transportAir
    /\ useTransport = DefaultForm.useTransport
    /\ transportType = DefaultForm.transportType
    /\ useSampling = DefaultForm.useSampling
    /\ samplingRate = DefaultForm.samplingRate
    /\ fxRate = DefaultForm.fxRate
    /\ finalPrice = NULL
    /\ pickedMarket = "none"

\* ------------------------------------------------------------------ the sales ledger
Init ==
    /\ now = 0
    /\ registryStore = Some(SeedRegistry)
    /\ salesStore = NULL
    /\ pricingStore = NULL
    /\ alert = <<"none">>
    /\ DetailInit
    /\ HomeInit
    /\ PricingInit

Next ==
    \/ \E r \in 1..Len(SeedRegistry) : OpenArticle(SeedRegistry[r].id)
    \/ OpenSalesModal
    \/ CloseSalesModal
    \/ RecordNewSale
    \/ \E i \in 1..MaxSales : StartEditSale(i)
    \/ DismissAddSaleModal
    \/ CloseAddSaleModal
    \/ \E input \in SaleFormInputs : TypeSaleForm(input)
    \/ SaveSale
    \/ \E i \in 1..MaxSales : DeleteSale(i)
    \/ Tick

Spec == Init /\ [][Next]_vars

\* ------------------------------------------------------------------ the import
\* The home screen mounts with loadLocalArticles in flight, on either
\* platform, over an empty store or the registry of an earlier import.
ImportInit ==
    /\ now = 1
    /\ registryStore \in {NULL, Some(SeedRegistry)}
    /\ salesStore = NULL
    /\ pricingStore = NULL
    /\ alert = <<"none">>
    /\ DetailInit
    /\ platform \in {"web", "mobile"}
    /\ fileContent = NULL
    /\ stats = DefaultStats
    /\ articles = <<>>
    /\ loading = TRUE
    /\ pendingImport = NULL
    /\ dialogChoice = "none"
    /\ BrowseInit
    /\ PricingInit

ImportNext ==
    \/ Refresh
    \/ LoadLocalArticlesDone
    \/ \E text \in ImportTexts, shouldReplace \in BOOLEAN : ImportWeb(text, shouldReplace)
    \/ \E text \in ImportTexts : ImportFile(text)
    \/ ImportCancel
    \/ ImportReplace
    \/ ImportAppend
    \/ Tick

ImportSpec == ImportInit /\ [][ImportNext]_vars

\* ------------------------------------------------------------------ the failing write
\* proceedWithImport on the web when storage.setItem throws inside
\* saveLocalArticles: the catch logs the error and the handler goes on.
ImportWebUnsaved(text, shouldReplace) ==
    /\ platform = "web"
    /\ ~loading
    /\ LET parsedArticles == ParseCSV(text)
           articlesWithIds == ArticlesWithIds(parsedArticles, now)
           merged == Merged(articles, articlesWithIds)
       IN /\ Len(parsedArticles) > 0
          /\ IF shouldReplace
             THEN /\ articles' = articlesWithIds
                  /\ ArticlesEffect(articlesWithIds)
                  /\ alert' = <<"Successfully imported", NumStr(Len(parsedArticles))>>
                  /\ dialogChoice' = "OK"
             ELSE /\ Len(merged) <= MaxArticles
                  /\ articles' = merged
                  /\ ArticlesEffect(merged)
                  /\ alert' = <<"Successfully added", NumStr(Len(parsedArticles))>>
                  /\ dialogChoice' = "Cancel"
    /\ fileContent' = Some(text)
    /\ UNCHANGED <<now, storeVars, detailVars, platform, stats, loading,
                   pendingImport, pricingVars>>

\* The "Replace All" button when storage.setItem rejects.
ImportReplaceUnsaved ==
    /\ pendingImport # NULL
    /\ articles' = pendingImport[1].articlesWithIds
    /\ ArticlesEffect(pendingImport[1].articlesWithIds)
    /\ loading' = FALSE
    /\ pendingImport' = NULL
    /\ alert' = <<"Imported", NumStr(Len(pendingImport[1].articlesWithIds))>>
    /\ dialogChoice' = "Replace All"
    /\ UNCHANGED <<now, storeVars, detailVars, platform, stats, fileContent, pricingVars>>

\* The "Append" button when storage.setItem rejects.
ImportAppendUnsaved ==
    /\ pendingImport # NULL
    /\ LET merged == Merged(pendingImport[1].articles, pendingImport[1].articlesWithIds)
       IN /\ Len(merged) <= MaxArticles
          /\ articles' = merged
          /\ ArticlesEffect(merged)
    /\ loading' = FALSE
    /\ pendingImport' = NULL
    /\ alert' = <<"Added", NumStr(Len(pendingImport[1].articlesWithIds))>>
    /\ dialogChoice' = "Append"
    /\ UNCHANGED <<now, storeVars, detailVars, platform, stats, fileContent, pricingVars>>

\* The import over a store whose writes may fail (quota exceeded, disk full).
UnsavedNext ==
    \/ Refresh
    \/ LoadLocalArticlesDone
    \/ \E text \in ImportTexts, shouldReplace \in BOOLEAN : ImportWeb(text, shouldReplace)
    \/ \E text \in ImportTexts, shouldReplace \in BOOLEAN :
          ImportWebUnsaved(text, shouldReplace)
    \/ \E text \in ImportTexts : ImportFile(text)
    \/ ImportCancel
    \/ ImportReplace
    \/ ImportReplaceUnsaved
    \/ ImportAppend
    \/ ImportAppendUnsaved
    \/ Tick

UnsavedSpec == ImportInit /\ [][UnsavedNext]_vars

\* ------------------------------------------------------------------ the unstocked registry
\* The routes the detail, pricing and dashboard screens are mounted for: a
\* card of the collection on screen, or a link kept from an earlier session.
RouteIds == {SeedRegistry[1].id} \cup {articles[i].id : i \in 1..Len(articles)}

\* The home screen mounts on a phone over a store without the key
\* article_registry or with an empty array under it.
UnstockedInit ==
    /\ now = 1
    /\ registryStore \in {NULL, Some(<<>>)}
    /\ salesStore = NULL
    /\ pricingStore = NULL
    /\ alert = <<"none">>
    /\ DetailInit
    /\ platform = "mobile"
    /\ fileContent = NULL
    /\ stats = DefaultStats
    /\ articles = <<>>
    /\ loading = TRUE
    /\ pendingImport = NULL
    /\ dialogChoice = "none"
    /\ BrowseInit
    /\ PricingInit

UnstockedNext ==
    \/ LoadLocalArticlesDone
    \/ \E text \in ImportTexts : ImportFile(text)
    \/ ImportCancel
    \/ ImportReplace
    \/ ImportAppend
    \/ \E id \in RouteIds : OpenArticle(id)
    \/ \E id \in RouteIds : OpenPricing(id)
    \/ ClosePricing
    \/ LoadStats

UnstockedSpec == UnstockedInit /\ [][UnstockedNext]_vars

\* ------------------------------------------------------------------ the parser
\* The data lines of the documents picked: plain, with a comma inside quotes,
\* without article code, with a blank article code, shorter and longer than
\* the header, empty, blank, with a quote left open, and ending in a
\* carriage return.
LinePlain == <<"A", ",", "R", ",", "T">>
LineQuotedComma == <<"\"", "A", ",", "B", "\"", ",", "R", ",", "T">>
LineNoCode == <<",", "R", ",", "T">>
LineBlankCode == <<" ", ",", "R", ",", "T">>
LineShort == <<"A">>
LineLong == <<"A", ",", "R", ",", "T", ",", "C">>
LineEmpty == <<>>
LineSpaces == <<" ", " ">>
LineOpenQuote == <<"A", ",", "\"", "R", ",", "T">>
LineCarriageReturn == <<"B", ",", "R", ",", "T", "CR">>
CsvLines ==
    {LinePlain, LineQuotedComma, LineNoCode, LineBlankCode, LineShort, LineLong, LineEmpty,
     LineSpaces, LineOpenQuote, LineCarriageReturn}

\* A document of four data lines, two of them without article code.
TextGap ==
    HeaderLine \o <<"LF">> \o LinePlain \o <<"LF">> \o LineBlankCode \o <<"LF">>
        \o LineEmpty \o <<"LF">> \o LineCarriageReturn

\* The documents: the header and two data lines, and the files of the import.
CsvTexts ==
    {HeaderLine \o <<"LF">> \o a \o <<"LF">> \o b : a, b \in CsvLines}
        \cup ImportTexts \cup {TextGap}

\* The home screen over an empty store, on either platform; fileContent is
\* the document the user picks.
CsvInit ==
    /\ now = 1
    /\ registryStore = NULL
    /\ salesStore = NULL
    /\ pricingStore = NULL
    /\ alert = <<"none">>
    /\ DetailInit
    /\ platform \in {"web", "mobile"}
    /\ fileContent \in {Some(text) : text \in CsvTexts}
    /\ stats = DefaultStats
    /\ articles = <<>>
    /\ loading = FALSE
    /\ pendingImport = NULL
    /\ dialogChoice = "none"
    /\ BrowseInit
    /\ PricingInit

CsvNext ==
    \/ ImportWeb(fileContent[1], TRUE)
    \/ ImportFile(fileContent[1])
    \/ ImportCancel
    \/ ImportReplace
    \/ Tick

CsvSpec == CsvInit /\ [][CsvNext]_vars

\* ------------------------------------------------------------------ the dashboard
\* What the sale forms of the stored sales held: quantities and prices that
\* parse and that do not, in either currency.
QuantityInputs == {<<"2">>, <<"1", ".", "5">>, <<"abc">>}
PriceInputs == {<<"3">>, <<"x">>}
StatsForms ==
    {[FormAnn EXCEPT !.quantity = q, !.price = p, !.currency = c] :
        q \in QuantityInputs, p \in PriceInputs, c \in Currencies}

\* The sales an article can have in the stored ledger, newest first: none,
\* one or two for the first article, none or one for the second.
SalesOfFirst ==
    {<<>>} \cup {<<SaleFor(SeedRegistry[1], f, 1)>> : f \in StatsForms}
        \cup {<<SaleFor(SeedRegistry[1], f, 1), SaleFor(SeedRegistry[1], g, 0)>> :
                 f, g \in StatsForms}
SalesOfSecond == {<<>>} \cup {<<SaleFor(SeedRegistry[2], f, 1)>> : f \in StatsForms}

\* A stored ledger: a key for each article with a sale.
LedgerOf(first, second) ==
    LET lists == <<first, second>>
    IN [id \in {SeedRegistry[a].id : a \in {b \in 1..2 : lists[b] # <<>>}} |->
           IF id = SeedRegistry[1].id THEN first ELSE second]

StatsLedgers ==
    {LedgerOf(first, second) : first \in SalesOfFirst, second \in SalesOfSecond}

\* The dashboard mounts over the registry and a ledger of earlier sessions.
StatsInit ==
    /\ now = MaxTime
    /\ registryStore = Some(SeedRegistry)
    /\ salesStore \in {NULL} \cup {Some(ledger) : ledger \in StatsLedgers}
    /\ pricingStore = NULL
    /\ alert = <<"none">>
    /\ DetailInit
    /\ HomeInit
    /\ PricingInit

StatsNext == LoadStats

StatsSpec == StatsInit /\ [][StatsNext]_vars

\* ------------------------------------------------------------------ the top sellers
\* The registry of an import of two colour variants of one article and one
\* other article.
RowAGreen == [RowA EXCEPT !.colorCode = <<"G">>]
VariantRegistry == <<WithId(RowA, 0, 0), WithId(RowAGreen, 0, 1), WithId(RowB, 0, 2)>>

\* The sales of an article of the registry in the stored ledger: none or one,
\* of a quantity that parses, in either currency.
VariantSales(a) ==
    {<<>>} \cup {<<SaleFor(a, [FormAnn EXCEPT !.quantity = q, !.currency = c], 1)>> :
                    q \in {<<"2">>, <<"1", ".", "5">>, <<"7">>}, c \in Currencies}

\* The stored ledgers over the variants: a key for each article with a sale.
VariantLedgers ==
    {[id \in {VariantRegistry[a].id : a \in {b \in 1..3 : lists[b] # <<>>}} |->
         lists[CHOOSE a \in 1..3 : VariantRegistry[a].id = id]] :
        lists \in VariantSales(VariantRegistry[1]) \X VariantSales(VariantRegistry[2])
                     \X VariantSales(VariantRegistry[3])}

\* The dashboard mounts over the registry of variants and a ledger of
\* earlier sessions.
TopSellingInit ==
    /\ now = MaxTime
    /\ registryStore = Some(VariantRegistry)
    /\ salesStore \in {Some(ledger) : ledger \in VariantLedgers}
    /\ pricingStore = NULL
    /\ alert = <<"none">>
    /\ DetailInit
    /\ HomeInit
    /\ PricingInit

TopSellingNext == LoadStats

TopSellingSpec == TopSellingInit /\ [][TopSellingNext]_vars

\* ------------------------------------------------------------------ the calculator
\* The registry of an earlier import: one article with a base price of
\* 2 EUR/mt and one without a base price.
PricedRow == [articleCode |-> <<"A">>, colorCode |-> <<"R">>, treatmentName |-> <<"T">>,
              basePriceEUR |-> <<"2">>]

PricedRegistry == <<WithId(PricedRow, 0, 0), WithId(RowB, 0, 1)>>

\* The commissions the user types: 5.5 percent.
CommissionInputs == {11}

PricingSpecInit ==
    /\ now = 0
    /\ registryStore = Some(PricedRegistry)
    /\ salesStore = NULL
    /\ pricingStore = NULL
    /\ alert = <<"none">>
    /\ DetailInit
    /\ HomeInit
    /\ PricingInit

PricingNext ==
    \/ \E r \in 1..Len(PricedRegistry) : OpenPricing(PricedRegistry[r].id)
    \/ ClosePricing
    \/ \E m \in MarketValues : SelectMarket(m)
    \/ \E c \in CommissionInputs : SetCustomCommission(c)
    \/ (TotalEntries(pricingStore) < MaxCalcs /\ SavePricingCalculation)
    \/ \E i \in 1..MaxCalcs : LoadHistoryItem(i)
    \/ \E i \in 1..MaxCalcs : DeleteHistoryItem(i)
    \/ Tick

PricingSpec == PricingSpecInit /\ [][PricingNext]_vars

\* ------------------------------------------------------------------ the history cap
\* The calculations of HistoryCap - 1 earlier saves of the default form, one a
\* millisecond, newest first.
SeedCalculations ==
    LET a == PricedRegistry[1]
    IN [i \in 1..(HistoryCap - 1) |->
           JsonCalculation(Calculation(a, DefaultForm, CalculatePrice(a, DefaultForm),
                                       HistoryCap - i))]

\* A millisecond passes.
HistoryTick ==
    /\ now < HistoryCap + MaxTime
    /\ now' = now + 1
    /\ alert' = <<"none">>
    /\ UNCHANGED <<storeVars, detailVars, homeVars, stats, pricingVars>>

\* The calculations in the store that were saved after the earlier ones.
SavedSince(stored, t) ==
    LET m == ParseOrEmpty(stored)
        RECURSIVE Sum(_)
        Sum(ks) == IF ks = {} THEN 0
                   ELSE LET k == CHOOSE x \in ks : TRUE
                        IN Len(SelectSeq(m[k], LAMBDA c : c.timestamp >= t)) + Sum(ks \ {k})
    IN Sum(DOMAIN m)

HistoryInit ==
    /\ now = HistoryCap
    /\ registryStore = Some(PricedRegistry)
    /\ salesStore = NULL
    /\ pricingStore \in {NULL, Some([k \in {PricedRegistry[1].id} |-> SeedCalculations])}
    /\ alert = <<"none">>
    /\ DetailInit
    /\ HomeInit
    /\ PricingInit

HistoryNext ==
    \/ OpenPricing(PricedRegistry[1].id)
    \/ ClosePricing
    \/ (SavedSince(pricingStore, HistoryCap) < MaxSaves /\ SavePricingCalculation)
    \/ DeleteHistoryItem(1)
    \/ HistoryTick

HistorySpec == HistoryInit /\ [][HistoryNext]_vars

\* ------------------------------------------------------------------ the price formula
\* A registry whose articles have base prices of 10 and of 2.50 EUR/mt.
TenRow == [PricedRow EXCEPT !.basePriceEUR = <<"1", "0">>]
FractionRow == [PricedRow EXCEPT !.basePriceEUR = <<"2", ".", "5">>]
FormulaRegistry == <<WithId(TenRow, 0, 0), WithId(FractionRow, 0, 1)>>

\* What the user types into the numeric fields.
MarginInputs == {150}
TransportCostInputs == {50}
SamplingRateInputs == {50}
FxRateInputs == {120}

FormulaInit ==
    /\ now = 0
    /\ registryStore = Some(FormulaRegistry)
    /\ salesStore = NULL
    /\ pricingStore = NULL
    /\ alert = <<"none">>
    /\ DetailInit
    /\ HomeInit
    /\ PricingInit

FormulaNext ==
    \/ \E r \in 1..Len(FormulaRegistry) : OpenPricing(FormulaRegistry[r].id)
    \/ ClosePricing
    \/ \E m \in MarketValues : SelectMarket(m)
    \/ \E c \in CommissionInputs : SetCustomCommission(c)
    \/ \E v \in MarginInputs : SetProfitMargin(v)
    \/ ToggleTransport
    \/ \E t \in {"truck", "air"} : SetTransportType(t)
    \/ \E v \in TransportCostInputs : SetTransportCost(v)
    \/ ToggleSampling
    \/ \E v \in SamplingRateInputs : SetSamplingRate(v)
    \/ \E v \in FxRateInputs : SetFxRate(v)

FormulaSpec == FormulaInit /\ [][FormulaNext]_vars

\* ------------------------------------------------------------------ the cleared fields
\* The user clears numeric fields of the calculator, for a market of Europe
\* and for the USA.
ClearedNext ==
    \/ OpenPricing(FormulaRegistry[1].id)
    \/ \E m \in {"italy", "usa"} : SelectMarket(m)
    \/ SetCustomCommission(EmptyText)
    \/ SetProfitMargin(EmptyText)
    \/ ToggleTransport
    \/ \E t \in {"truck", "air"} : SetTransportType(t)
    \/ SetTransportCost(EmptyText)
    \/ ToggleSampling
    \/ SetSamplingRate(EmptyText)
    \/ SetFxRate(EmptyText)

ClearedSpec == FormulaInit /\ [][ClearedNext]_vars

\* ------------------------------------------------------------------ the home list
\* The registry of an earlier import: two variants of one article around an
\* article without a name and a supplier, whose price is negative.
KnitRow == [articleCode |-> <<"A">>, articleName |-> <<"b">>, colorCode |-> <<"R">>,
            treatmentName |-> <<"T">>, season |-> <<"ss24">>, section |-> <<"knit">>,
            supplier |-> <<"acme">>, basePriceEUR |-> <<"5">>]
PlainRow == [articleCode |-> <<"B">>, colorCode |-> <<"R">>, treatmentName |-> <<"T">>,
             season |-> <<"fw24">>, section |-> <<"knit">>,
             basePriceEUR |-> <<"-", "1">>]
WovenRow == [KnitRow EXCEPT !.colorCode = <<"C">>, !.section = <<"woven">>,
                            !.basePriceEUR = <<"1", "2">>]
BrowseRegistry == <<WithId(KnitRow, 0, 0), WithId(PlainRow, 0, 1), WithId(WovenRow, 0, 2)>>

\* The filter sets applyFilters stores.
FilterSet(seasons, sections, suppliers, minPrice, maxPrice, soldItemsOnly) ==
    [seasons |-> seasons, sections |-> sections, suppliers |-> suppliers,
     minPrice |-> minPrice, maxPrice |-> maxPrice, soldItemsOnly |-> soldItemsOnly]

EmptyFilterSet == FilterSet(<<>>, <<>>, <<>>, <<>>, <<>>, FALSE)

FilterSetInputs ==
    {EmptyFilterSet,
     FilterSet(<< <<"ss24">> >>, <<>>, <<>>, <<>>, <<>>, FALSE),
     FilterSet(<<>>, << <<"knit">> >>, << <<"acme">> >>, <<>>, <<>>, FALSE),
     FilterSet(<<>>, <<>>, <<>>, <<>>, <<"1", "0">>, FALSE),
     FilterSet(<<>>, <<>>, <<>>, <<"-", "5">>, <<"1", "0">>, FALSE),
     FilterSet(<<>>, <<>>, <<>>, <<>>, <<>>, TRUE),
     FilterSet(<< <<"ss24">> >>, <<>>, <<>>, <<>>, <<>>, TRUE)}

ViewModes == {"all", "favorites", "recent"}
SortOptions == {"name", "code", "price", "date"}
SearchInputs == {<<>>, <<"a">>}

\* The ledger an earlier session left: one sale of the first article.
SeedLedger ==
    [k \in {BrowseRegistry[1].id} |-> <<SaleFor(BrowseRegistry[1], FormAnn, 0)>>]

\* The favourites an earlier session left.
SeedFavorites == <<BrowseRegistry[3].id>>

\* The home screen has mounted and shows the loaded collection, with the
\* favourites and the ledger loaded; the loadFilters call of the mount is
\* waiting.
BrowseSpecInit ==
    /\ now = 1
    /\ registryStore = Some(BrowseRegistry)
    /\ salesStore = Some(SeedLedger)
    /\ pricingStore = NULL
    /\ alert = <<"none">>
    /\ DetailInit
    /\ platform = "mobile"
    /\ fileContent = NULL
    /\ stats = DefaultStats
    /\ articles = BrowseRegistry
    /\ loading = FALSE
    /\ pendingImport = NULL
    /\ dialogChoice = "none"
    /\ screen = "home"
    /\ filterStore = NULL
    /\ recentStore = NULL
    /\ favoritesStore = Some(SeedFavorites)
    /\ searchQuery = <<>>
    /\ favorites = SeedFavorites
    /\ recentArticles = <<>>
    /\ viewMode = "all"
    /\ currentSort = "name"
    /\ activeFilters = NULL
    /\ homeSales = ParseOrEmpty(salesStore)
    /\ filteredArticles = FilterAndSort(BrowseRegistry, "all", SeedFavorites, <<>>, NULL,
                                        EmptyMap, <<>>, "name")
    /\ groupedArticles = GroupArticles(filteredArticles)
    /\ filtersLoading = TRUE
    /\ salesLoading = FALSE
    /\ PricingInit

BrowseNext ==
    \/ \E mode \in ViewModes : SetViewMode(mode)
    \/ \E sort \in SortOptions : SetCurrentSort(sort)
    \/ \E text \in SearchInputs : SetSearchQuery(text)
    \/ OpenFromList(1)
    \/ GoBack
    \/ OpenFilterScreen
    \/ \E filters \in FilterSetInputs : ApplyFilters(filters)
    \/ ClearFilters
    \/ ClearFiltersHome
    \/ LoadFiltersDone

BrowseSpec == BrowseSpecInit /\ [][BrowseNext]_vars

\* ------------------------------------------------------------------ the kept stores
\* What earlier sessions left for the first article of the registry: a sale,
\* a saved calculation, a favourite and a visit.
KeptLedger ==
    [k \in {PricedRegistry[1].id} |-> <<SaleFor(PricedRegistry[1], FormAnn, 0)>>]
KeptCalculations ==
    [k \in {PricedRegistry[1].id} |->
        <<JsonCalculation(Calculation(PricedRegistry[1], DefaultForm,
                                      CalculatePrice(PricedRegistry[1], DefaultForm), 0))>>]
KeptIds == <<PricedRegistry[1].id>>

\* The home screen has mounted over the stores of earlier sessions, on either
\* platform, and shows the loaded collection.
KeptInit ==
    /\ now = 1
    /\ registryStore = Some(PricedRegistry)
    /\ salesStore = Some(KeptLedger)
    /\ pricingStore = Some(KeptCalculations)
    /\ alert = <<"none">>
    /\ DetailInit
    /\ platform \in {"web", "mobile"}
    /\ fileContent = NULL
    /\ stats = DefaultStats
    /\ articles = PricedRegistry
    /\ loading = FALSE
    /\ pendingImport = NULL
    /\ dialogChoice = "none"
    /\ screen = "home"
    /\ filterStore = NULL
    /\ recentStore = Some(KeptIds)
    /\ favoritesStore = Some(KeptIds)
    /\ searchQuery = <<>>
    /\ favorites = KeptIds
    /\ recentArticles = KeptIds
    /\ viewMode = "all"
    /\ currentSort = "name"
    /\ activeFilters = NULL
    /\ homeSales = KeptLedger
    /\ filteredArticles = FilterAndSort(PricedRegistry, "all", KeptIds, KeptIds, NULL,
                                        KeptLedger, <<>>, "name")
    /\ groupedArticles = GroupArticles(filteredArticles)
    /\ filtersLoading = FALSE
    /\ salesLoading = FALSE
    /\ PricingInit

KeptSpec == KeptInit /\ [][ImportNext]_vars

\* ------------------------------------------------------------------ the recent list
\* The registry of an earlier import of twelve rows: three articles in four
\* colours.
RecentCodes == <<"A", "B", "C">>
RecentColors == <<"R", "T", "C", "B">>
RecentRegistry ==
    [n \in 1..(Len(RecentCodes) * Len(RecentColors)) |->
        WithId([articleCode |-> <<RecentCodes[((n - 1) \div Len(RecentColors)) + 1]>>,
                colorCode |-> <<RecentColors[((n - 1) % Len(RecentColors)) + 1]>>,
                treatmentName |-> <<"T">>], 0, n - 1)]

\* The visits of earlier sessions: the third to the eleventh record, the
\* third last.
SeedRecent == [n \in 1..(RecentCap - 1) |-> RecentRegistry[n + 2].id]

\* The cards the user presses: the first two and the last of the list.
PressedCards == {1, 2, Len(RecentRegistry)}

\* The home screen has mounted and shows the loaded collection and the
\* recent list of the store.
RecentInit ==
    /\ now = 1
    /\ registryStore = Some(RecentRegistry)
    /\ salesStore = NULL
    /\ pricingStore = NULL
    /\ alert = <<"none">>
    /\ DetailInit
    /\ platform = "mobile"
    /\ fileContent = NULL
    /\ stats = DefaultStats
    /\ articles = RecentRegistry
    /\ loading = FALSE
    /\ pendingImport = NULL
    /\ dialogChoice = "none"
    /\ screen = "home"
    /\ filterStore = NULL
    /\ recentStore = Some(SeedRecent)
    /\ favoritesStore = NULL
    /\ searchQuery = <<>>
    /\ favorites = <<>>
    /\ recentArticles = SeedRecent
    /\ viewMode = "all"
    /\ currentSort = "name"
    /\ activeFilters = NULL
    /\ homeSales = EmptyMap
    /\ filteredArticles = FilterAndSort(RecentRegistry, "all", <<>>, SeedRecent, NULL,
                                        EmptyMap, <<>>, "name")
    /\ groupedArticles = GroupArticles(filteredArticles)
    /\ filtersLoading = FALSE
    /\ salesLoading = FALSE
    /\ PricingInit

RecentNext ==
    \/ \E i \in PressedCards : OpenFromList(i)
    \/ GoBack
    \/ \E mode \in {"all", "recent"} : SetViewMode(mode)
    \/ LoadFiltersDone
    \/ LoadSalesHistoryDone

RecentSpec == RecentInit /\ [][RecentNext]_vars

\* ------------------------------------------------------------------ the price range
\* The registry of an earlier import: a record priced 5, a record without
\* a price and a record whose price is no number.
UnpricedRow == [articleCode |-> <<"B">>, articleName |-> <<"b">>, colorCode |-> <<"R">>,
                treatmentName |-> <<"T">>]
GarbledRow == [articleCode |-> <<"C">>, articleName |-> <<"b">>, colorCode |-> <<"R">>,
               treatmentName |-> <<"T">>, basePriceEUR |-> <<"abc">>]
PriceRegistry == <<WithId(KnitRow, 0, 0), WithId(UnpricedRow, 0, 1), WithId(GarbledRow, 0, 2)>>

\* The price bounds typed on the filter screen.
MinPriceInputs == {<<>>, <<"0">>, <<"5">>}
MaxPriceInputs == {<<>>, <<"0">>, <<"1", "0">>}
PriceFilterInputs ==
    {FilterSet(<<>>, <<>>, <<>>, min, max, FALSE) :
        min \in MinPriceInputs, max \in MaxPriceInputs}

\* The home screen has mounted and shows the loaded collection; the
\* loadFilters call of the mount is waiting.
PriceRangeInit ==
    /\ now = 1
    /\ registryStore = Some(PriceRegistry)
    /\ salesStore = NULL
    /\ pricingStore = NULL
    /\ alert = <<"none">>
    /\ DetailInit
    /\ platform = "mobile"
    /\ fileContent = NULL
    /\ stats = DefaultStats
    /\ articles = PriceRegistry
    /\ loading = FALSE
    /\ pendingImport = NULL
    /\ dialogChoice = "none"
    /\ screen = "home"
    /\ filterStore = NULL
    /\ recentStore = NULL
    /\ favoritesStore = NULL
    /\ searchQuery = <<>>
    /\ favorites = <<>>
    /\ recentArticles = <<>>
    /\ viewMode = "all"
    /\ currentSort = "name"
    /\ activeFilters = NULL
    /\ homeSales = EmptyMap
    /\ filteredArticles = FilterAndSort(PriceRegistry, "all", <<>>, <<>>, NULL, EmptyMap,
                                        <<>>, "name")
    /\ groupedArticles = GroupArticles(filteredArticles)
    /\ filtersLoading = TRUE
    /\ salesLoading = FALSE
    /\ PricingInit

PriceRangeNext ==
    \/ OpenFilterScreen
    \/ \E filters \in PriceFilterInputs : ApplyFilters(filters)
    \/ LoadFiltersDone
    \/ LoadSalesHistoryDone
    \/ ClearFiltersHome
    \/ \E sort \in {"name", "code", "date"} : SetCurrentSort(sort)

PriceRangeSpec == PriceRangeInit /\ [][PriceRangeNext]_vars

\* ------------------------------------------------------------------ the groups
\* The rows of an earlier import with an "Article Name" column: without a
\* name, named "Unknown", named "a" and named "a_b", under the codes "c"
\* and "b_c".
NameInputs == {<<>>, <<"Unknown">>, <<"a">>, <<"a", "_", "b">>}
CodeInputs == {<<"c">>, <<"b", "_", "c">>}
GroupRows ==
    {[articleCode |-> code, articleName |-> name, colorCode |-> <<"R">>,
      treatmentName |-> <<"T">>] : name \in NameInputs, code \in CodeInputs}

\* The registries of two different rows.
GroupRegistries ==
    {<<WithId(rows[1], 0, 0), WithId(rows[2], 0, 1)>> :
        rows \in {pair \in GroupRows \X GroupRows : pair[1] # pair[2]}}

\* The home screen mounts with loadLocalArticles in flight over one of the
\* registries.
GroupInit ==
    /\ now = 1
    /\ registryStore \in {Some(registry) : registry \in GroupRegistries}
    /\ salesStore = NULL
    /\ pricingStore = NULL
    /\ alert = <<"none">>
    /\ DetailInit
    /\ platform = "mobile"
    /\ fileContent = NULL
    /\ stats = DefaultStats
    /\ articles = <<>>
    /\ loading = TRUE
    /\ pendingImport = NULL
    /\ dialogChoice = "none"
    /\ BrowseInit
    /\ PricingInit

GroupNext ==
    \/ LoadLocalArticlesDone
    \/ \E sort \in SortOptions : SetCurrentSort(sort)

GroupSpec == GroupInit /\ [][GroupNext]_vars

\* ------------------------------------------------------------------ the focus loads
\* The home screen shows the loaded collection under the stored "sold items
\* only" filter; the user opens articles, records sales on the detail screen
\* and comes back, and the two loads of the focus effect answer in any order.
SoldFilterSet == FilterSet(<<>>, <<>>, <<>>, <<>>, <<>>, TRUE)

FocusInit ==
    /\ now = 1
    /\ registryStore = Some(BrowseRegistry)
    /\ salesStore = Some(SeedLedger)
    /\ pricingStore = NULL
    /\ alert = <<"none">>
    /\ DetailInit
    /\ platform = "mobile"
    /\ fileContent = NULL
    /\ stats = DefaultStats
    /\ articles = BrowseRegistry
    /\ loading = FALSE
    /\ pendingImport = NULL
    /\ dialogChoice = "none"
    /\ screen = "home"
    /\ filterStore \in {NULL, Some(SoldFilterSet)}
    /\ recentStore = NULL
    /\ favoritesStore = NULL
    /\ searchQuery = <<>>
    /\ favorites = <<>>
    /\ recentArticles = <<>>
    /\ viewMode = "all"
    /\ currentSort = "name"
    /\ activeFilters = ActiveFrom(filterStore, NULL)
    /\ homeSales = SeedLedger
    /\ filteredArticles = FilterAndSort(BrowseRegistry, "all", <<>>, <<>>, activeFilters,
                                        SeedLedger, <<>>, "name")
    /\ groupedArticles = GroupArticles(filteredArticles)
    /\ filtersLoading = FALSE
    /\ salesLoading = FALSE
    /\ PricingInit

FocusNext ==
    \/ \E i \in 1..MaxArticles : OpenFromList(i)
    \/ (TotalEntries(salesStore) <= MaxSales /\ DetailRecordsSale(FormAnn))
    \/ GoBack
    \/ OpenFilterScreen
    \/ \E filters \in {EmptyFilterSet, SoldFilterSet} : ApplyFilters(filters)
    \/ ClearFiltersHome
    \/ LoadFiltersDone
    \/ LoadSalesHistoryDone

FocusSpec == FocusInit /\ [][FocusNext]_vars

\* ------------------------------------------------------------------ ledger claims
IsTimestampDescending(list) ==
    \A i \in 1..(Len(list) - 1) : list[i].timestamp >= list[i + 1].timestamp

StoredSales(stored, articleId) == GetList(ParseOrEmpty(stored), articleId)

\* Every key but articleId holds the same list before and after the step.
OtherArticlesUnchanged(articleId) ==
    \A k \in (DOMAIN ParseOrEmpty(salesStore)) \cup (DOMAIN ParseOrEmpty(salesStore')) :
        k # articleId => StoredSales(salesStore', k) = StoredSales(salesStore, k)

\* A step of saveSale that passed the validation and wrote the ledger.
SaveStep ==
    /\ showAddSaleModal
    /\ alert' \in {<<"Sale recorded successfully">>, <<"Sale updated successfully">>}

\* A step of deleteSale that wrote the ledger.
DeleteStep == alert' = <<"Sale deleted">>

\* C1: the sale list on screen, whether put there by loadSalesHistory, by
\* saveSale or by deleteSale, is ordered by timestamp, newest first.
C1_ScreenListNewestFirst == IsTimestampDescending(salesHistory)

\* C1 witness: an edit was just saved into a list of two sales recorded at
\* different times.
C1_Witness ==
    /\ alert = <<"Sale updated successfully">>
    /\ Len(salesHistory) = 2
    /\ salesHistory[1].timestamp > salesHistory[2].timestamp

\* C2: a save of the form opened by "Record New Sale", with the four fields
\* filled, puts exactly one new sale at the head of the article's stored list
\* and leaves every sale stored before as it was.
C2_RecordNewSaleAddsOne ==
    [][(SaveStep /\ formVia = "record") =>
          LET before == StoredSales(salesStore, article[1].id)
              after == StoredSales(salesStore', article[1].id)
          IN /\ Len(after) = Len(before) + 1
             /\ Tail(after) = before
             /\ OtherArticlesUnchanged(article[1].id)]_vars

\* C3: a save of the form opened by the edit button of a sale replaces that
\* sale in place: same length, the sale at the same position with its id,
\* timestamp and articleId, every other sale of the ledger unchanged.
C3_EditReplacesInPlace ==
    [][(SaveStep /\ formVia = "edit") =>
          LET before == StoredSales(salesStore, article[1].id)
              after == StoredSales(salesStore', article[1].id)
          IN /\ Len(after) = Len(before)
             /\ \E i \in 1..Len(before) :
                   /\ before[i] = editingSale[1]
                   /\ after[i].id = before[i].id
                   /\ after[i].timestamp = before[i].timestamp
                   /\ after[i].articleId = before[i].articleId
                   /\ \A j \in 1..Len(before) : j # i => after[j] = before[j]
             /\ OtherArticlesUnchanged(article[1].id)]_vars

\* C4: deleteSale removes exactly one sale of the owning article's list, the
\* others keeping their order, and leaves the other articles' lists unchanged.
C4_DeleteRemovesOne ==
    [][DeleteStep =>
          LET before == StoredSales(salesStore, article[1].id)
              after == StoredSales(salesStore', article[1].id)
          IN /\ Len(after) = Len(before) - 1
             /\ \E i \in 1..Len(before) :
                   after = SubSeq(before, 1, i - 1) \o SubSeq(before, i + 1, Len(before))
             /\ OtherArticlesUnchanged(article[1].id)]_vars

\* ------------------------------------------------------------------ import claims
NoValidRows == <<"No valid articles found in CSV file">>

\* recs are the valid rows of one of the files, given their ids at a clock
\* reading up to now.
FreshlyImported(recs) ==
    \E text \in ImportTexts, t \in 0..now :
        Len(ParseCSV(text)) > 0 /\ recs = ArticlesWithIds(ParseCSV(text), t)

\* C5: an Append import of N valid rows over M records leaves the M records
\* first and unchanged, followed by the N new ones; a Replace import leaves
\* exactly the N new ones; the stored registry is the collection in memory.
C5_AppendAndReplace ==
    [][/\ alert'[1] \in {"Added", "Successfully added"} =>
            LET added == SubSeq(articles', Len(articles) + 1, Len(articles'))
            IN /\ articles' = articles \o added
               /\ FreshlyImported(added)
               /\ alert'[2] = NumStr(Len(added))
               /\ registryStore' = Some(articles')
       /\ alert'[1] \in {"Imported", "Successfully imported"} =>
            /\ FreshlyImported(articles')
            /\ alert'[2] = NumStr(Len(articles'))
            /\ registryStore' = Some(articles')]_vars

\* C5 witness: one row was appended to the two records of the seed registry.
C5_Witness ==
    /\ alert[1] \in {"Added", "Successfully added"}
    /\ alert[2] = NumStr(1)
    /\ Len(articles) = 3
    /\ SubSeq(articles, 1, 2) = SeedRegistry

\* C6 as stated: an import that parses no valid row, and a cancelled
\* import-mode dialog, change neither the collection nor the stored registry.
C6_NoRowsOrCancelChangesNothing ==
    [][(alert' = NoValidRows \/ dialogChoice' = "Cancel") =>
          UNCHANGED <<articles, registryStore>>]_vars

\* C6 amended: an import that parses no valid row, and the Cancel button of
\* the phone's "Import Mode" dialog, change neither the collection nor the
\* stored registry (the web dialog has no such button: its Cancel appends).
C6_NoRowsOrPhoneCancelChangesNothing ==
    [][(alert' = NoValidRows \/ (dialogChoice' = "Cancel" /\ platform = "mobile")) =>
          UNCHANGED <<articles, registryStore>>]_vars

\* C6 witness: a file without valid rows was imported over a loaded collection.
C6_Witness ==
    /\ alert = NoValidRows
    /\ Len(articles) = 2
    /\ registryStore = Some(articles)

\* C7: the ids of the collection are pairwise different.
C7_IdsUnique ==
    \A i, j \in 1..Len(articles) : i # j => articles[i].id # articles[j].id

\* ------------------------------------------------------------------ pricing history claims
StoredCalculations(stored, id) == GetList(ParseOrEmpty(stored), id)

SavedAlert == <<"Pricing calculation saved to history">>

\* C8: whatever was saved and deleted, every article's stored pricing history
\* holds at most 20 calculations, newest first; a save puts the new
\* calculation at the head, and over 20 stored ones it leaves exactly 20,
\* the oldest one gone.
C8_HistoryCappedNewestFirst ==
    /\ [](\A id \in DOMAIN ParseOrEmpty(pricingStore) :
             /\ Len(StoredCalculations(pricingStore, id)) <= 20
             /\ IsTimestampDescending(StoredCalculations(pricingStore, id)))
    /\ [][alert' = SavedAlert =>
             LET id == pricingArticle[1].id
                 before == StoredCalculations(pricingStore, id)
                 after == StoredCalculations(pricingStore', id)
             IN /\ after # <<>>
                /\ after[1].id = NumStr(now)
                /\ after[1].finalPrice = finalPrice[1]
                /\ IF Len(before) = 20
                   THEN Len(after) = 20 /\ Tail(after) = SubSeq(before, 1, 19)
                   ELSE Tail(after) = before]_vars

\* C8 witness: a save over twenty stored calculations has evicted the oldest
\* of the earlier ones (the calculation saved at millisecond 1).
C8_Witness ==
    /\ alert = SavedAlert
    /\ pricingArticle # NULL
    /\ Len(StoredCalculations(pricingStore, pricingArticle[1].id)) = 20
    /\ StoredCalculations(pricingStore, pricingArticle[1].id)[20].timestamp = 2
    /\ StoredCalculations(pricingStore, pricingArticle[1].id)[1].timestamp >= HistoryCap

\* C9: loading a saved calculation leaves, once the effects have settled, the
\* stored market selected, the form's commission equal to the stored
\* commission and the final price equal to the stored final price.
C9_LoadRestoresCommissionAndPrice ==
    [][\A i \in 1..Len(pricingHistory) :
          LoadHistoryItem(i) =>
              /\ selectedMarket' = pricingHistory[i].market
              /\ ParseFloatField(customCommission') = pricingHistory[i].commission
              /\ finalPrice' = Some(pricingHistory[i].finalPrice)]_vars

\* The steps, other than a market selection, that set the commission field:
\* the user typing one, a history load, the screen mounting or unmounting.
CommissionSetElsewhere ==
    \/ \E c \in CommissionInputs : SetCustomCommission(c)
    \/ \E i \in 1..Len(pricingHistory) : LoadHistoryItem(i)
    \/ \E r \in 1..Len(PricedRegistry) : OpenPricing(PricedRegistry[r].id)
    \/ ClosePricing

\* C10 as stated: pressing a market in the picker sets the commission field to
\* that market's default, and nothing but a market selection replaces the
\* commission the user has typed.
C10_SelectionSetsDefault ==
    [][/\ \A m \in MarketValues :
             SelectMarket(m) => customCommission' = FindMarket(m).commission
       /\ customCommission' # customCommission =>
             (\E m \in MarketValues : SelectMarket(m)) \/ CommissionSetElsewhere]_vars

\* C10 amended: pressing a market other than the selected one sets the
\* commission field to that market's default; pressing the selected market
\* again leaves the commission as it is; nothing but a market selection
\* replaces the commission the user has typed.
C10_ChangeOfMarketSetsDefault ==
    [][/\ \A m \in MarketValues :
             SelectMarket(m) =>
                 customCommission' = IF m # selectedMarket THEN FindMarket(m).commission
                                     ELSE customCommission
       /\ customCommission' # customCommission =>
             (\E m \in MarketValues : SelectMarket(m)) \/ CommissionSetElsewhere]_vars

\* C10 witness: Spain was pressed in the picker while Spain was selected and
\* the typed commission of 5.5 percent is still in the field.
C10_Witness ==
    /\ pickedMarket = "spain"
    /\ selectedMarket = "spain"
    /\ customCommission = 11

\* ------------------------------------------------------------------ price formula claims
\* The price of the statement, over 2000000, from the fields on screen:
\* ((base + regionMargin) * (1 + commission / 100) + transport) * (1 + sampling / 100).
StatedEurNumerator ==
    LET base == ParseFloat(pricingArticle[1].basePriceEUR)
        region == FindMarket(selectedMarket).region
        regionMargin == IF region = "europe" THEN profitMarginEurope
                        ELSE IF region = "usa" THEN profitMarginUSA ELSE profitMarginOther
        transport == IF ~useTransport THEN 0
                     ELSE IF transportType = "truck" THEN transportTruck ELSE transportAir
        sampling == IF useSampling THEN samplingRate ELSE 0
    IN ((base + regionMargin) * (200 + customCommission) + 200 * transport) * (100 + sampling)

\* C11: outside the USA region the final price is
\* ((base + regionMargin) * (1 + commission/100) + transport) * (1 + sampling/100),
\* the transport being the cost of the selected type when transport is on and
\* the sampling 0 when sampling is off; base 10, margin 0.80, commission 5
\* without transport and sampling gives 11.34.
C11_EurFormula ==
    /\ (pricingArticle # NULL /\ FindMarket(selectedMarket).region # "usa") =>
           finalPrice = Some([num |-> StatedEurNumerator, unit |-> "EUR/mt"])
    /\ CalculatePrice(FormulaRegistry[1], DefaultForm) = [num |-> 22680000, unit |-> "EUR/mt"]

\* C11 witness: a price outside the USA with air transport and sampling on.
C11_Witness ==
    /\ pricingArticle # NULL
    /\ FindMarket(selectedMarket).region # "usa"
    /\ useTransport /\ transportType = "air" /\ useSampling
    /\ finalPrice = Some([num |-> StatedEurNumerator, unit |-> "EUR/mt"])

\* C12: the price is in USD/yrd, the EUR/mt price after commission, transport
\* and sampling times fxRate over 1.09361, exactly when the selected market's
\* region is usa; base 10, margin 1.20, commission 10, fxRate 1.10 without
\* transport and sampling gives 12.32 * 1.10 / 1.09361.
C12_UsdConversionLast ==
    /\ pricingArticle # NULL =>
           IF FindMarket(selectedMarket).region = "usa"
           THEN finalPrice = Some([num |-> StatedEurNumerator, fx |-> fxRate,
                                   unit |-> "USD/yrd"])
           ELSE finalPrice[1].unit = "EUR/mt" /\ "fx" \notin DOMAIN finalPrice[1]
    /\ CalculatePrice(FormulaRegistry[1],
                      [DefaultForm EXCEPT !.selectedMarket = "usa", !.customCommission = 20])
           = [num |-> 24640000, fx |-> 110, unit |-> "USD/yrd"]

\* C12 witness: the USA is selected for the article of base price 10 with the
\* default margin, commission and exchange rate, and the price is 12.32 * 1.10 / 1.09361.
C12_Witness ==
    /\ pricingArticle = Some(FormulaRegistry[1])
    /\ selectedMarket = "usa"
    /\ finalPrice = Some([num |-> 24640000, fx |-> 110, unit |-> "USD/yrd"])

\* ------------------------------------------------------------------ home list claims
\* The list the pipeline gives for the collection, view mode, favourites,
\* recent list, ledger, query and sort key on screen under the stored value
\* `stored` of the filter key.
ListUnder(stored) ==
    FilterAndSort(articles, viewMode, favorites, recentArticles,
                  ActiveFrom(stored, activeFilters), homeSales, searchQuery, currentSort)

\* C13: when loadFilters answers over a stored filter set without any value,
\* over the cleared value '{}' or over an absent key, the list on screen is
\* the list without filters, the same in the three cases, whatever the
\* collection, view mode, query and sort key.
C13_EmptyFilterSetIsNoFilter ==
    /\ [](ListUnder(Some(EmptyFilterSet)) = ListUnder(NULL)
             /\ ListUnder(Some(EmptyObject)) = ListUnder(NULL))
    /\ [][(filtersLoading /\ ~filtersLoading'
               /\ filterStore \in {NULL, Some(EmptyObject), Some(EmptyFilterSet)}) =>
             filteredArticles' = FilterAndSort(articles, viewMode, favorites, recentArticles,
                                               NULL, homeSales, searchQuery,
                                               currentSort)]_vars

\* C13 witness: loadFilters has answered over the stored empty filter set
\* while the list is searched and two records pass.
C13_Witness ==
    /\ screen = "home"
    /\ filterStore = Some(EmptyFilterSet)
    /\ ~filtersLoading
    /\ activeFilters = NULL
    /\ searchQuery # <<>>
    /\ Len(filteredArticles) = 2

\* a is b with some elements left out.
RECURSIVE IsSubList(_, _)
IsSubList(a, b) ==
    IF a = <<>> THEN TRUE
    ELSE IF b = <<>> THEN FALSE
    ELSE IF Head(a) = Head(b) THEN IsSubList(Tail(a), Tail(b))
    ELSE IsSubList(a, Tail(b))

\* The filter set g holds every criterion of f and possibly more.
Extends(g, f) ==
    /\ \A k \in {"seasons", "sections", "suppliers", "minPrice", "maxPrice"} :
           f[k] = <<>> \/ g[k] = f[k]
    /\ f.soldItemsOnly => g.soldItemsOnly

\* C14: for the collection, view mode, query, sort key and ledger on screen,
\* the list under a filter set is a sub-list of the list under any filter
\* set with a subset of its criteria.
C14_MoreCriteriaNeverMore ==
    \A f \in FilterSetInputs, g \in FilterSetInputs :
        Extends(g, f) => IsSubList(ListUnder(Some(g)), ListUnder(Some(f)))

InRecentOrder(list, recents) ==
    \A i \in 1..(Len(list) - 1) :
        IndexOf(recents, list[i].id) <= IndexOf(recents, list[i + 1].id)

\* C16: in view mode 'recent' the list on screen holds only records whose id
\* is in the recent list, in the order of that list, the same for every sort
\* key, and it is the recent records of the collection with some left out.
C16_RecentOrderOverridesSort ==
    viewMode = "recent" =>
        /\ \A i \in 1..Len(filteredArticles) : Has(recentArticles, filteredArticles[i].id)
        /\ InRecentOrder(filteredArticles, recentArticles)
        /\ \A sort \in SortOptions :
               filteredArticles = FilterAndSort(articles, viewMode, favorites,
                                                recentArticles, activeFilters, homeSales,
                                                searchQuery, sort)
        /\ IsSubList(filteredArticles,
                     ViewStage(articles, "recent", favorites, recentArticles))

\* C16 witness: two recent records are on screen in recency order, which is
\* not the order of the selected sort key.
C16_Witness ==
    /\ viewMode = "recent"
    /\ Len(filteredArticles) >= 2
    /\ filteredArticles # SortBy(currentSort, <<>>, filteredArticles)

\* ------------------------------------------------------------------ claims: the parser
\* The rows the import of fileContent produced, as far as the screen shows
\* them: waiting in the import-mode dialog, or imported, or none valid.
ParsedOnScreen ==
    IF pendingImport # NULL THEN Some(pendingImport[1].articlesWithIds)
    ELSE IF alert[1] \in {"Successfully imported", "Imported"} THEN Some(articles)
    ELSE IF alert = NoValidRows THEN Some(<<>>)
    ELSE NULL

\* The data lines of a document, trimmed; none when it has fewer than two lines.
DataLines(text) ==
    LET lines == SplitLines(StripBOM(text))
    IN IF Len(lines) < 2 THEN <<>> ELSE [i \in 1..(Len(lines) - 1) |-> Trim(lines[i + 1])]

\* The value of the column `key` on a data line: the field at the position
\* of the header, the empty text when the line has no such position.
ValueAt(text, line, key) ==
    LET headers == Headers(SplitLines(StripBOM(text))[1])
        fields == ScanFields(line)
        at == CHOOSE h \in 1..Len(headers) : ConvertHeaderToKey(headers[h]) = key
    IN IF at <= Len(fields) THEN fields[at] ELSE <<>>

\* The positions of the data lines that are not blank and hold an article code.
Qualifying(text) ==
    {i \in 1..Len(DataLines(text)) :
        /\ DataLines(text)[i] # <<>>
        /\ Trim(ValueAt(text, DataLines(text)[i], "articleCode")) # <<>>}

\* The k-th smallest position of a set of positions.
KthOf(positions, k) ==
    CHOOSE i \in positions : Cardinality({j \in positions : j < i}) = k - 1

\* C17: every row parseCSV returns has an articleCode that is not empty after
\* trimming; the rows are those of the data lines that hold one, in the order
\* of the lines; a document of fewer than two lines gives no rows and the
\* notice of no valid rows, not an error.
C17_RowsHaveCodeInLineOrder ==
    ParsedOnScreen # NULL =>
        LET rows == ParsedOnScreen[1]
            text == fileContent[1]
            kept == Qualifying(text)
        IN /\ \A r \in 1..Len(rows) :
                  "articleCode" \in DOMAIN rows[r] /\ Trim(rows[r].articleCode) # <<>>
           /\ Len(rows) = Cardinality(kept)
           /\ \A r \in 1..Len(rows) :
                  \A key \in {"articleCode", "colorCode", "treatmentName"} :
                      rows[r][key] = ValueAt(text, DataLines(text)[KthOf(kept, r)], key)
           /\ Len(SplitLines(StripBOM(text))) < 2 => (rows = <<>> /\ alert = NoValidRows)

\* C17 witness: the document of four data lines is imported; the two rows on
\* screen are those of its first and last line, in that order.
C17_Witness ==
    /\ fileContent = Some(TextGap)
    /\ alert[1] \in {"Successfully imported", "Imported"}
    /\ Len(articles) = 2
    /\ articles[1].articleCode = <<"A">>
    /\ articles[2].articleCode = <<"B">>

\* The commas of a line outside quotes: those with an even number of quotes
\* before them.
UnquotedCommas(line) ==
    {j \in 1..Len(line) :
        /\ line[j] = ","
        /\ Cardinality({q \in 1..(j - 1) : line[q] = "\""}) % 2 = 0}

\* The commas of a line inside quotes.
QuotedCommas(line) == {j \in 1..Len(line) : line[j] = ","} \ UnquotedCommas(line)

\* The number of commas in the fields of a line.
RECURSIVE CommasIn(_)
CommasIn(fields) ==
    IF fields = <<>> THEN 0
    ELSE Len(SelectSeq(Head(fields), LAMBDA c : c = ",")) + CommasIn(Tail(fields))

\* C18: a data line with k commas outside quotes is read as k + 1 fields, the
\* commas inside quotes staying in the values; the fields are given to the
\* headers by position, a header without a field getting the empty text.
C18_QuotedCommasStayInValues ==
    ParsedOnScreen # NULL =>
        LET rows == ParsedOnScreen[1]
            text == fileContent[1]
            headers == Headers(SplitLines(StripBOM(text))[1])
        IN \A r \in 1..Len(rows) :
               LET line == DataLines(text)[KthOf(Qualifying(text), r)]
                   fields == ScanFields(line)
               IN /\ Len(fields) = Cardinality(UnquotedCommas(line)) + 1
                  /\ CommasIn(fields) = Cardinality(QuotedCommas(line))
                  /\ \A h \in 1..Len(headers) :
                         rows[r][ConvertHeaderToKey(headers[h])] =
                             IF h <= Len(fields) THEN fields[h] ELSE <<>>

\* C18 witness: a line with a comma inside quotes and a line shorter than the
\* header are imported: the comma is in the article code of the first row,
\* the second row has an empty colour code.
C18_Witness ==
    /\ alert[1] \in {"Successfully imported", "Imported"}
    /\ Len(articles) = 2
    /\ articles[1].articleCode = <<"A", ",", "B">>
    /\ articles[1].colorCode = <<"R">>
    /\ articles[2].articleCode = <<"A">>
    /\ articles[2].colorCode = <<>>

\* ------------------------------------------------------------------ claims: the groups
\* The positions of the input whose record has the key.
PositionsOf(list, key) == {i \in 1..Len(list) : GroupKey(list[i]) = key}

\* C19: the groups on screen partition the list on screen: the group keys
\* are distinct and in first-seen order, each group holds the records of its
\* key in input order, its mainArticle is its first variant and its
\* variantCount their number, the counts add up to the length of the list,
\* and grouping again gives the same groups.
C19_GroupsPartitionTheList ==
    LET list == filteredArticles
        groups == groupedArticles
    IN /\ \A g, h \in 1..Len(groups) : g # h => groups[g].groupKey # groups[h].groupKey
       /\ \A i \in 1..Len(list) : \E g \in 1..Len(groups) : groups[g].groupKey = GroupKey(list[i])
       /\ \A g \in 1..Len(groups) :
              /\ groups[g].variants # <<>>
              /\ IsSubList(groups[g].variants, list)
              /\ \A j \in 1..Len(groups[g].variants) :
                     GroupKey(groups[g].variants[j]) = groups[g].groupKey
              /\ Len(groups[g].variants) = Cardinality(PositionsOf(list, groups[g].groupKey))
              /\ groups[g].mainArticle = groups[g].variants[1]
              /\ groups[g].variantCount = Len(groups[g].variants)
       /\ \A g, h \in 1..Len(groups) :
              g < h => \E i \in PositionsOf(list, groups[g].groupKey) :
                           \A j \in PositionsOf(list, groups[h].groupKey) : i < j
       /\ LET RECURSIVE Total(_)
              Total(n) == IF n = 0 THEN 0 ELSE groups[n].variantCount + Total(n - 1)
          IN Total(Len(groups)) = Len(list)
       /\ GroupArticles(list) = groups

\* C19 witness: the two variants of one article are on screen with another
\* article between them, in one group of two after the first-seen order.
C19_Witness ==
    /\ Len(filteredArticles) = 3
    /\ GroupKey(filteredArticles[1]) = GroupKey(filteredArticles[3])
    /\ GroupKey(filteredArticles[1]) # GroupKey(filteredArticles[2])
    /\ Len(groupedArticles) = 2
    /\ groupedArticles[1].variantCount = 2

\* ------------------------------------------------------------------ claims: the dashboard
\* The sum over a set of articles of the total quantity of each.
RECURSIVE QuantityOverArticles(_, _)
QuantityOverArticles(ledger, ids) ==
    IF ids = {} THEN 0
    ELSE LET id == CHOOSE x \in ids : TRUE
         IN GetTotalQuantitySold(SortByTimestampDesc(ledger[id]))
                + QuantityOverArticles(ledger, ids \ {id})

\* The sales of the ledger in a currency, as pairs of article id and position.
SalesIn(ledger, currency) ==
    {<<id, i>> \in (DOMAIN ledger) \X (1..2) :
        i <= Len(ledger[id]) /\ ledger[id][i].currency = currency}

\* The sum of quantity x price over a set of sales of the ledger.
RECURSIVE RevenueOver(_, _)
RevenueOver(ledger, sales) ==
    IF sales = {} THEN 0
    ELSE LET at == CHOOSE x \in sales : TRUE
             sale == ledger[at[1]][at[2]]
         IN ParseFloatOrZero(sale.quantity) * ParseFloatOrZero(sale.price)
                + RevenueOver(ledger, sales \ {at})

\* The ledger without the sales in a currency.
Without(ledger, currency) ==
    [id \in DOMAIN ledger |-> SelectSeq(ledger[id], LAMBDA sale : sale.currency # currency)]

\* C20: once loadStats has answered, totalOrders is the number of sales of
\* the stored ledger over all articles, totalQuantity the sum over the
\* articles of the total quantity their detail screen shows (an unparseable
\* quantity counting 0), and the revenue of each currency the sum of
\* quantity x price over the sales in that currency, the same as over the
\* ledger without the sales in the other currency.
C20_DashboardTotals ==
    stats # DefaultStats =>
        LET ledger == ParseOrEmpty(salesStore)
        IN /\ stats.sales.totalOrders = TotalEntries(salesStore)
           /\ stats.sales.totalQuantity = QuantityOverArticles(ledger, DOMAIN ledger)
           /\ stats.sales.totalRevenue.EUR = RevenueOver(ledger, SalesIn(ledger, "EUR"))
           /\ stats.sales.totalRevenue.USD = RevenueOver(ledger, SalesIn(ledger, "USD"))
           /\ \A keys \in KeyOrders(ledger) :
                  /\ stats.sales.totalRevenue.EUR =
                         SalesStats(Without(ledger, "USD"), keys).totalRevenue.EUR
                  /\ stats.sales.totalRevenue.USD =
                         SalesStats(Without(ledger, "EUR"), keys).totalRevenue.USD

\* C20 witness: the dashboard shows three sales of two articles, one with a
\* quantity that does not parse, with revenue in both currencies.
C20_Witness ==
    /\ stats.sales.totalOrders = 3
    /\ stats.sales.totalQuantity = 350
    /\ stats.sales.totalRevenue.EUR > 0
    /\ stats.sales.totalRevenue.USD > 0
    /\ \E id \in DOMAIN ParseOrEmpty(salesStore) :
           \E i \in 1..Len(salesStore[1][id]) :
               ParseNumber(salesStore[1][id][i].quantity) = NULL

\* The articles of the ledger that have a sale.
SoldArticles(ledger) == {id \in DOMAIN ledger : ledger[id] # <<>>}

\* The position at which an article is first met when the ledger is visited
\* in key order `keys`.
EncounterOf(keys, id) == CHOOSE i \in DOMAIN keys : keys[i] = id

\* C21: the top-selling list on the dashboard has at most 5 entries, one for
\* each article of the ledger with a sale, carrying the summed quantity and
\* the number of sales of that article, by summed quantity descending, ties
\* in the order the articles are met.
C21_TopSellingPerArticle ==
    stats # DefaultStats =>
        LET ledger == ParseOrEmpty(salesStore)
            top == stats.sales.topSellingArticles
            sold == SoldArticles(ledger)
        IN /\ Len(top) <= TopSellingCap
           /\ Len(top) = (IF Cardinality(sold) < TopSellingCap THEN Cardinality(sold)
                          ELSE TopSellingCap)
           /\ \A e \in 1..Len(top) :
                  /\ top[e].articleName \in sold
                  /\ top[e].quantity = GetTotalQuantitySold(ledger[top[e].articleName])
                  /\ top[e].orders = Len(ledger[top[e].articleName])
           /\ \A e, f \in 1..Len(top) : e # f => top[e].articleName # top[f].articleName
           /\ \A e \in 1..(Len(top) - 1) : top[e].quantity >= top[e + 1].quantity
           /\ \E keys \in KeyOrders(ledger) :
                  \A e \in 1..(Len(top) - 1) :
                      (top[e].quantity = top[e + 1].quantity
                           /\ top[e].articleName \in sold /\ top[e + 1].articleName \in sold) =>
                          EncounterOf(keys, top[e].articleName)
                              < EncounterOf(keys, top[e + 1].articleName)

\* ------------------------------------------------------------------ claims: group identity
\* The name and the code of a record, a missing field being the empty text.
NameAndCode(a) == <<FieldOr(a, "articleName", <<>>), FieldOr(a, "articleCode", <<>>)>>

\* C22: two records in the same group on screen have the same articleName
\* and the same articleCode, and two records on screen with the same
\* articleName and articleCode are in the same group.
C22_GroupIsNameAndCode ==
    /\ \A g \in 1..Len(groupedArticles) :
           \A i, j \in 1..Len(groupedArticles[g].variants) :
               NameAndCode(groupedArticles[g].variants[i])
                   = NameAndCode(groupedArticles[g].variants[j])
    /\ \A i, j \in 1..Len(filteredArticles) :
           NameAndCode(filteredArticles[i]) = NameAndCode(filteredArticles[j]) =>
               \E g \in 1..Len(groupedArticles) :
                   /\ Has(groupedArticles[g].variants, filteredArticles[i])
                   /\ Has(groupedArticles[g].variants, filteredArticles[j])

\* The second half of C22 alone: records with the same name and code share
\* a group.
SameNameAndCodeShareGroup ==
    \A i, j \in 1..Len(filteredArticles) :
        NameAndCode(filteredArticles[i]) = NameAndCode(filteredArticles[j]) =>
            \E g \in 1..Len(groupedArticles) :
                /\ Has(groupedArticles[g].variants, filteredArticles[i])
                /\ Has(groupedArticles[g].variants, filteredArticles[j])

\* ------------------------------------------------------------------ claims: the price range
\* The price stage runs: a filter set is active and holds a price bound.
PriceStageActive ==
    /\ activeFilters # NULL
    /\ activeFilters[1].minPrice # <<>> \/ activeFilters[1].maxPrice # <<>>

\* 0 lies between the bounds, an empty lower bound being 0 and an empty
\* upper bound +infinity.
ZeroInRange(filters) ==
    /\ filters.minPrice = <<>> \/ ParseNumber(filters.minPrice)[1] <= 0
    /\ filters.maxPrice = <<>> \/ 0 <= ParseNumber(filters.maxPrice)[1]

NoPrice(a) == FieldOr(a, "basePriceEUR", <<>>) = <<>>

UnparseablePrice(a) == ~NoPrice(a) /\ ParseNumber(a.basePriceEUR) = NULL

\* C23: while the price stage runs, a record whose basePriceEUR is missing
\* or is no number is on screen exactly when 0 lies between the bounds.
C23_UnpricedCountsAsZero ==
    PriceStageActive =>
        \A i \in 1..Len(articles) :
            (NoPrice(articles[i]) \/ UnparseablePrice(articles[i])) =>
                (Has(filteredArticles, articles[i]) <=> ZeroInRange(activeFilters[1]))

\* The case of C23 for a missing basePriceEUR alone.
MissingPriceCountsAsZero ==
    PriceStageActive =>
        \A i \in 1..Len(articles) :
            NoPrice(articles[i]) =>
                (Has(filteredArticles, articles[i]) <=> ZeroInRange(activeFilters[1]))

\* ------------------------------------------------------------------ claims: cleared fields
\* A field as the statement counts it: 0 when it does not parse.
ZeroWhenUnparsed(x) == IF x < 0 THEN 0 ELSE x

\* The price of the formula, over 2000000, with every field that does not
\* parse counted as 0.
DegradedEurNumerator ==
    LET base == ParseFloat(pricingArticle[1].basePriceEUR)
        region == FindMarket(selectedMarket).region
        regionMargin == IF region = "europe" THEN profitMarginEurope
                        ELSE IF region = "usa" THEN profitMarginUSA ELSE profitMarginOther
        transport == IF ~useTransport THEN 0
                     ELSE IF transportType = "truck" THEN transportTruck ELSE transportAir
        sampling == IF useSampling THEN samplingRate ELSE 0
    IN ((base + ZeroWhenUnparsed(regionMargin)) * (200 + ZeroWhenUnparsed(customCommission))
            + 200 * ZeroWhenUnparsed(transport)) * (100 + ZeroWhenUnparsed(sampling))

\* C24 as stated: with the calculator open there is a price, the price of the
\* formula with the margin, the commission, the transport cost, the sampling
\* rate and the exchange rate counted as 0 when they do not parse.
C24_UnparsedFieldsCountAsZero ==
    pricingArticle # NULL =>
        /\ finalPrice # NULL
        /\ IF FindMarket(selectedMarket).region = "usa"
           THEN finalPrice = Some([num |-> DegradedEurNumerator,
                                   fx |-> ZeroWhenUnparsed(fxRate), unit |-> "USD/yrd"])
           ELSE finalPrice = Some([num |-> DegradedEurNumerator, unit |-> "EUR/mt"])

\* C24 amended: with the calculator open there is a price, the price of the
\* formula with the margin, the commission, the transport cost and the
\* sampling rate counted as 0 when they do not parse, and the exchange rate
\* counted as 1.
C24_UnparsedFieldsDegrade ==
    pricingArticle # NULL =>
        /\ finalPrice # NULL
        /\ IF FindMarket(selectedMarket).region = "usa"
           THEN finalPrice = Some([num |-> DegradedEurNumerator,
                                   fx |-> IF fxRate < 0 THEN 100 ELSE fxRate,
                                   unit |-> "USD/yrd"])
           ELSE finalPrice = Some([num |-> DegradedEurNumerator, unit |-> "EUR/mt"])

\* C24 witness: the USA is selected with the margin, the commission, the
\* transport cost, the sampling rate and the exchange rate cleared, transport
\* and sampling on, and the price is the base price of 10 over 1.09361.
C24_Witness ==
    /\ pricingArticle # NULL
    /\ selectedMarket = "usa"
    /\ profitMarginUSA = EmptyText /\ customCommission = EmptyText
    /\ useTransport /\ transportTruck = EmptyText /\ transportType = "truck"
    /\ useSampling /\ samplingRate = EmptyText
    /\ fxRate = EmptyText
    /\ finalPrice = Some([num |-> 20000000, fx |-> 100, unit |-> "USD/yrd"])

\* ------------------------------------------------------------------ ledger failure claims
\* One of the four text fields of the sale form is blank once trimmed.
AnyFieldBlank ==
    \E field \in {saleCustomer, saleColor, saleQuantity, salePrice} : Trim(field) = <<>>

\* C25: a press of Save with customer, color, quantity or price blank after
\* trimming shows the error and changes nothing: the stored ledger, the sale
\* list on screen, the form fields, the form's visibility and the sale under
\* edit are as before.
C25_BlankFieldChangesNothing ==
    [][(SaveSale /\ AnyFieldBlank) =>
          /\ alert' = <<"Please fill in all fields">>
          /\ UNCHANGED <<storeVars, salesHistory, showAddSaleModal, editingSale,
                         saleCustomer, saleColor, saleQuantity, salePrice,
                         saleCurrency, saleUnit>>]_vars

\* C25 witness: the edit of a stored sale was refused for its customer of
\* blanks only.
C25_Witness ==
    /\ alert = <<"Please fill in all fields">>
    /\ saleCustomer = <<" ">>
    /\ editingSale # NULL
    /\ showAddSaleModal
    /\ salesHistory # <<>>
    /\ salesStore # NULL

\* The open article's stored list holds a sale of this id.
IdStored(id) ==
    \E k \in 1..Len(StoredSales(salesStore, article[1].id)) :
        StoredSales(salesStore, article[1].id)[k].id = id

\* C26: a save of an edit, or a delete, whose sale id is not in the article's
\* stored list does not end with the success message.
C26_MissingTargetIsRefused ==
    [][/\ (SaveSale /\ ~AnyFieldBlank /\ editingSale # NULL
              /\ ~IdStored(editingSale[1].id))
          => alert' # <<"Sale updated successfully">>
       /\ \A i \in 1..MaxSales :
             (DeleteSale(i) /\ ~IdStored(salesHistory[i].id))
             => alert' # <<"Sale deleted">>]_vars

\* ------------------------------------------------------------------ import store claims
\* The message of an import that ended well.
ImportSucceeded ==
    alert[1] \in {"Imported", "Added", "Successfully imported", "Successfully added"}

\* C28: while the success message of an import is on screen, the stored
\* article_registry is the collection in memory.
C28_SuccessMeansStored == ImportSucceeded => registryStore = Some(articles)

\* A step of proceedWithImport or of a button of its dialog.
ImportAction ==
    \/ \E text \in ImportTexts, shouldReplace \in BOOLEAN : ImportWeb(text, shouldReplace)
    \/ \E text \in ImportTexts : ImportFile(text)
    \/ ImportCancel
    \/ ImportReplace
    \/ ImportAppend

\* C29: no step of an import, in either mode, changes the stored
\* sales_history, pricing_history, article_favorites or article_recent.
C29_ImportKeepsOtherStores ==
    [][ImportAction =>
          UNCHANGED <<salesStore, pricingStore, favoritesStore, recentStore>>]_vars

\* C29 witness: a Replace has ended well and the ledger still holds the sale
\* of an article that is no longer in the registry.
C29_Witness ==
    /\ alert[1] \in {"Imported", "Successfully imported"}
    /\ salesStore = Some(KeptLedger)
    /\ pricingStore = Some(KeptCalculations)
    /\ favoritesStore = Some(KeptIds)
    /\ recentStore = Some(KeptIds)
    /\ \A i \in 1..Len(registryStore[1]) : registryStore[1][i].id # PricedRegistry[1].id

\* ------------------------------------------------------------------ recent list claims
\* The list without the id.
Others(list, id) == SelectSeq(list, LAMBDA x : x # id)

NoDuplicates(list) ==
    \A i, j \in 1..Len(list) : list[i] = list[j] => i = j

\* C30: addToRecent(id) leaves a list of at most 10 ids without duplicates,
\* the id first, the other ids in the order they had, none of them dropped
\* unless the list would exceed 10 and then only from the least recent end;
\* the stored article_recent is the list in memory.
C30_RecentCappedLatestFirst ==
    [][\A i \in 1..Len(filteredArticles) :
          OpenFromList(i) =>
             LET id == filteredArticles[i].id
                 rest == Others(recentArticles, id)
                 new == recentArticles'
                 kept == IF Len(rest) + 1 > RecentCap THEN RecentCap - 1 ELSE Len(rest)
             IN /\ Len(new) <= RecentCap
                /\ NoDuplicates(new)
                /\ new[1] = id
                /\ Tail(new) = SubSeq(rest, 1, kept)
                /\ recentStore' = Some(new)]_vars

\* C30 witness: the list is full, the two least recent visits of the earlier
\* sessions have been dropped for records opened since, and a record already
\* in the list has been opened again.
C30_Witness ==
    /\ screen = "detail"
    /\ Len(recentArticles) = RecentCap
    /\ recentStore = Some(recentArticles)
    /\ ~Has(recentArticles, SeedRecent[RecentCap - 1])
    /\ ~Has(recentArticles, SeedRecent[RecentCap - 2])
    /\ recentArticles[1] = RecentRegistry[1].id
    /\ recentArticles[2] = RecentRegistry[Len(RecentRegistry)].id
    /\ recentArticles[3] = RecentRegistry[2].id

\* ------------------------------------------------------------------ absent key claims
\* The key article_registry is absent or holds an empty array.
Unstocked == registryStore = NULL \/ registryStore = Some(<<>>)

\* The outcome of a mount over the empty array: the alert of loadArticle, the
\* sales statistics of loadStats over the stored ledger.
NotFound == <<"Article not found">>
LedgerStatistics(sales) ==
    \E keys \in KeyOrders(ParseOrEmpty(salesStore)) :
        sales = SalesStats(ParseOrEmpty(salesStore), keys)

\* C27: over an absent article_registry, as over an empty array, the mount
\* of the detail screen and of the pricing screen ends with the alert
\* 'Article not found', and loadStats leaves the sales statistics of the
\* stored ledger on the dashboard.
C27_AbsentIsEmpty ==
    [][Unstocked =>
          /\ \A id \in RouteIds :
                /\ OpenArticle(id) => alert' = NotFound
                /\ OpenPricing(id) => alert' = NotFound
          /\ LoadStats => LedgerStatistics(stats'.sales)]_vars

\* The same over the empty array alone.
EmptyArrayIsNotFound ==
    [][registryStore = Some(<<>>) =>
          /\ \A id \in RouteIds :
                /\ OpenArticle(id) => alert' = NotFound
                /\ OpenPricing(id) => alert' = NotFound
          /\ LoadStats => LedgerStatistics(stats'.sales)]_vars

\* The dashboard half over the absent key.
AbsentKeepsSalesStatistics ==
    [][(registryStore = NULL /\ LoadStats) => LedgerStatistics(stats'.sales)]_vars

====
